---- MODULE Spec2Model ----
(***************************************************************************)
(* A model of alert-dispatcher: the SQS polling loop (Poller.Poll and the  *)
(* handler main gives it), the three adapters with priority and channel    *)
(* routing (package adapter), and the Slack interactive callback           *)
(* (Server.handleInteractive with verifySlackRequest).                     *)
(*                                                                         *)
(* Strings are TLA+ strings; the string functions the code calls           *)
(* (strings.Contains, ToLower, ToUpper, TrimSpace, strconv.ParseInt) are   *)
(* computed character by character.  A JSON document is modelled by what   *)
(* json.Unmarshal makes of it: whether it decodes, and the decoded fields. *)
(***************************************************************************)
EXTENDS Integers, Sequences, FiniteSets, TLC

(***************************************************************************)
(* Bounds of the model.                                                    *)
(***************************************************************************)
\* messages that are ever sent to the queue
MaxMsgs == 2
\* receipts (messages handed out by ReceiveMessage) in one run
MaxReceipts == 3
\* interactive callbacks served in one run
MaxRequests == 2

(***************************************************************************)
(* Strings.                                                                *)
(***************************************************************************)
LowerAlpha == "abcdefghijklmnopqrstuvwxyz"
UpperAlpha == "ABCDEFGHIJKLMNOPQRSTUVWXYZ"

CharAt(s, i) == SubSeq(s, i, i)

\* unicode.ToLower on one (ASCII) character
LowerChar(c) ==
    IF \E i \in 1..26 : CharAt(UpperAlpha, i) = c
    THEN CharAt(LowerAlpha, CHOOSE i \in 1..26 : CharAt(UpperAlpha, i) = c)
    ELSE c

\* unicode.ToUpper on one (ASCII) character
UpperChar(c) ==
    IF \E i \in 1..26 : CharAt(LowerAlpha, i) = c
    THEN CharAt(UpperAlpha, CHOOSE i \in 1..26 : CharAt(LowerAlpha, i) = c)
    ELSE c

RECURSIVE ToLowerFrom(_, _)
ToLowerFrom(s, i) ==
    IF i > Len(s) THEN "" ELSE LowerChar(CharAt(s, i)) \o ToLowerFrom(s, i + 1)

\* strings.ToLower
ToLower(s) == ToLowerFrom(s, 1)

RECURSIVE ToUpperFrom(_, _)
ToUpperFrom(s, i) ==
    IF i > Len(s) THEN "" ELSE UpperChar(CharAt(s, i)) \o ToUpperFrom(s, i + 1)

\* strings.ToUpper
ToUpper(s) == ToUpperFrom(s, 1)

\* strings.Contains
Contains(s, sub) ==
    \E i \in 1..(Len(s) - Len(sub) + 1) : SubSeq(s, i, i + Len(sub) - 1) = sub

\* a Go map lookup m[k]: the zero value "" when the key is absent
Lookup(m, k) == IF k \in DOMAIN m THEN m[k] ELSE ""

\* the empty map (also a nil map: the code only reads it)
EmptyMap == [k \in {} |-> ""]

Digits == "0123456789"
IsDigit(c) == \E i \in 1..10 : CharAt(Digits, i) = c
DigitValue(c) == (CHOOSE i \in 1..10 : CharAt(Digits, i) = c) - 1

RECURSIVE DecimalValue(_, _)
\* the value of the first n characters of the digit string s
DecimalValue(s, n) ==
    IF n = 0 THEN 0 ELSE 10 * DecimalValue(s, n - 1) + DigitValue(CharAt(s, n))

RECURSIVE Itoa(_)
\* the decimal text of a natural number, as %d prints it
Itoa(n) == IF n < 10 THEN CharAt(Digits, n + 1) ELSE Itoa(n \div 10) \o CharAt(Digits, (n % 10) + 1)

RECURSIVE Join(_, _)
\* strings.Join
Join(parts, sep) ==
    IF Len(parts) = 0 THEN ""
    ELSE IF Len(parts) = 1 THEN parts[1]
    ELSE parts[1] \o sep \o Join(Tail(parts), sep)

\* strings.ReplaceAll(s, "_", " ")
RECURSIVE UnderscoresToSpaces(_)
UnderscoresToSpaces(s) ==
    IF Len(s) = 0 THEN ""
    ELSE (IF CharAt(s, 1) = "_" THEN " " ELSE CharAt(s, 1))
         \o UnderscoresToSpaces(SubSeq(s, 2, Len(s)))

\* the orders in which a range statement may visit the keys of a map: Go leaves
\* the order unspecified, so every order of the keys is one
RangeOrders(keys) ==
    {order \in [1..Cardinality(keys) -> keys] : \A k \in keys : \E i \in DOMAIN order : order[i] = k}

(***************************************************************************)
(* The texts of the model are ASCII.  Bullet stands for U+2022, Arrow for  *)
(* U+2192, Backquote for U+0060, and each emoji for the one of its name.   *)
(***************************************************************************)
Bullet == "&bull;"
Arrow == "->"
Backquote == "^"
WhiteCheckMark == ":white_check_mark:"
CrossMark == ":x:"
RotatingLight == ":rotating_light:"
WarningSign == ":warning:"
BarChart == ":bar_chart:"
Hourglass == ":hourglass:"
RedCircle == ":red_circle:"
GreenCircle == ":green_circle:"
YellowCircle == ":yellow_circle:"

(***************************************************************************)
(* Decoded JSON.  An untyped value (interface{}) of the modern webhook is  *)
(* a record: t is "obj" for a JSON object (m its members), "str" for a     *)
(* string (s its text), "num" for any other scalar, "absent" for a missing *)
(* key.  The members of an object are such values themselves.              *)
(***************************************************************************)
JAbsent == [t |-> "absent", s |-> "", m |-> EmptyMap]
JStr(str) == [t |-> "str", s |-> str, m |-> EmptyMap]
JNum == [t |-> "num", s |-> "", m |-> EmptyMap]
JObj(members) == [t |-> "obj", s |-> "", m |-> members]

\* v, ok := x[k].(map[string]interface{}); w, exists := v[k2]; str, ok := w.(string)
HasString(jv, k) == jv.t = "obj" /\ k \in DOMAIN jv.m /\ jv.m[k].t = "str"
StringOf(jv, k) == jv.m[k].s

(***************************************************************************)
(* The message of a cloud alarm: formatSlackMessage.  Threshold is a       *)
(* float64 in the code; the model holds it in tenths (a natural number),   *)
(* so that %.1f prints it exactly.                                         *)
(***************************************************************************)
\* a state in its color: the text between backquotes
StateColor(circle, state) == Backquote \o circle \o " " \o state \o Backquote

\* %.1f of a threshold held in tenths
FormatTenths(tenths) == Itoa(tenths \div 10) \o "." \o Itoa(tenths % 10)

AllDigits(s) == \A i \in 1..Len(s) : IsDigit(CharAt(s, i))

DaysIn(year, month) ==
    IF month = 2
    THEN IF (year % 4 = 0 /\ year % 100 # 0) \/ year % 400 = 0 THEN 29 ELSE 28
    ELSE IF month \in {4, 6, 9, 11} THEN 30 ELSE 31

\* time.Parse("2006-01-02T15:04:05.000+0000", timeStr) returns no error
ParsesAsTimestamp(timeStr) ==
    /\ Len(timeStr) = 28
    /\ AllDigits(SubSeq(timeStr, 1, 4)) /\ CharAt(timeStr, 5) = "-"
    /\ AllDigits(SubSeq(timeStr, 6, 7)) /\ CharAt(timeStr, 8) = "-"
    /\ AllDigits(SubSeq(timeStr, 9, 10)) /\ CharAt(timeStr, 11) = "T"
    /\ AllDigits(SubSeq(timeStr, 12, 13)) /\ CharAt(timeStr, 14) = ":"
    /\ AllDigits(SubSeq(timeStr, 15, 16)) /\ CharAt(timeStr, 17) = ":"
    /\ AllDigits(SubSeq(timeStr, 18, 19)) /\ CharAt(timeStr, 20) = "."
    /\ AllDigits(SubSeq(timeStr, 21, 23)) /\ SubSeq(timeStr, 24, 28) = "+0000"
    /\ LET year == DecimalValue(SubSeq(timeStr, 1, 4), 4)
           month == DecimalValue(SubSeq(timeStr, 6, 7), 2)
           day == DecimalValue(SubSeq(timeStr, 9, 10), 2)
       IN  /\ month \in 1..12
           /\ day \in 1..DaysIn(year, month)
           /\ DecimalValue(SubSeq(timeStr, 12, 13), 2) < 24
           /\ DecimalValue(SubSeq(timeStr, 15, 16), 2) < 60
           /\ DecimalValue(SubSeq(timeStr, 18, 19), 2) < 60

\* the time parsed is printed as "2006-01-02 15:04:05 UTC"; a text that does
\* not parse is returned as it is
formatTimestamp(timeStr) ==
    IF ParsesAsTimestamp(timeStr)
    THEN SubSeq(timeStr, 1, 10) \o " " \o SubSeq(timeStr, 12, 19) \o " UTC"
    ELSE timeStr

formatDimensionsIndented(dimensions) ==
    IF Len(dimensions) = 0 THEN "   " \o Arrow \o " None"
    ELSE Join([i \in 1..Len(dimensions) |->
                  "   " \o Arrow \o " " \o dimensions[i].name \o ": " \o dimensions[i].value],
              "\n")

formatSlackMessage(alarm) ==
    LET emoji ==
            CASE alarm.NewStateValue = "ALARM" -> RotatingLight
              [] alarm.NewStateValue = "OK" -> WhiteCheckMark
              [] alarm.NewStateValue = "INSUFFICIENT_DATA" -> WarningSign
              [] OTHER -> BarChart
        stateColor ==
            CASE alarm.NewStateValue = "ALARM" -> StateColor(RedCircle, "ALARM")
              [] alarm.NewStateValue = "OK" -> StateColor(GreenCircle, "OK")
              [] alarm.NewStateValue = "INSUFFICIENT_DATA" ->
                     StateColor(YellowCircle, "INSUFFICIENT_DATA")
              [] OTHER -> Backquote \o alarm.NewStateValue \o Backquote
        oldStateColor ==
            CASE alarm.OldStateValue = "ALARM" -> StateColor(RedCircle, "ALARM")
              [] alarm.OldStateValue = "OK" -> StateColor(GreenCircle, "OK")
              [] alarm.OldStateValue = "INSUFFICIENT_DATA" ->
                     StateColor(YellowCircle, "INSUFFICIENT_DATA")
              [] OTHER -> Backquote \o alarm.OldStateValue \o Backquote
    IN  emoji \o " *CloudWatch Alarm: " \o alarm.AlarmName \o "*\n"
        \o Bullet \o " *From:* " \o oldStateColor \o " " \o Arrow \o " *To:* " \o stateColor
        \o "\n" \o Bullet \o " *Metric:* " \o Backquote \o alarm.Trigger.Namespace \o "/"
        \o alarm.Trigger.MetricName \o Backquote \o "\n"
        \o Bullet \o " *Threshold:* " \o Backquote \o alarm.Trigger.ComparisonOperator \o " "
        \o FormatTenths(alarm.Trigger.Threshold) \o Backquote \o "\n"
        \o Bullet \o " *Period:* " \o Backquote \o Itoa(alarm.Trigger.Period) \o "s over "
        \o Itoa(alarm.Trigger.EvaluationPeriods) \o " evaluations" \o Backquote \o "\n"
        \o Bullet \o " *Dimensions:*\n"
        \o formatDimensionsIndented(alarm.Trigger.Dimensions) \o "\n"
        \o Bullet \o " *Region:* " \o Backquote \o alarm.Region \o Backquote \o "\n"
        \o Bullet \o " *Reason:* " \o alarm.NewStateReason \o "\n"
        \o Bullet \o " *Time:* " \o Backquote \o formatTimestamp(alarm.StateChangeTime)
        \o Backquote

(***************************************************************************)
(* Cloud alarms: determinePriority.                                        *)
(***************************************************************************)
\* determinePriority without the rule of the cpu and memory alarms
determinePriorityNoKeywords(alarm) ==
    LET alarmName == ToLower(alarm.AlarmName)
        namespace == alarm.Trigger.Namespace
    IN  IF Contains(alarmName, "prod") \/ Contains(alarmName, "production") THEN "P0"
        ELSE IF Contains(namespace, "RDS") \/ Contains(namespace, "DynamoDB") THEN "P0"
        ELSE IF Contains(namespace, "ELB") \/ Contains(namespace, "5xx") THEN "P0"
        ELSE IF Contains(alarmName, "redis") \/ Contains(alarmName, "elasticache") THEN "P1"
        ELSE "P2"

determinePriority(alarm) ==
    LET alarmName == ToLower(alarm.AlarmName)
        namespace == alarm.Trigger.Namespace
    IN  IF Contains(alarmName, "prod") \/ Contains(alarmName, "production") THEN "P0"
        ELSE IF Contains(namespace, "RDS") \/ Contains(namespace, "DynamoDB") THEN "P0"
        ELSE IF Contains(namespace, "ELB") \/ Contains(namespace, "5xx") THEN "P0"
        ELSE IF Contains(alarmName, "cpu") \/ Contains(alarmName, "memory") THEN "P0"
        ELSE IF Contains(alarmName, "redis") \/ Contains(alarmName, "elasticache") THEN "P1"
        ELSE IF Contains(alarmName, "qa") \/ Contains(alarmName, "staging") THEN "P2"
        ELSE "P2"

(***************************************************************************)
(* Channel routing.  The three adapters hold the same lines: the explicit  *)
(* mapping of the name first, then the channel of the priority, then the   *)
(* "default" channel, each step taken when the one before gave "".         *)
(***************************************************************************)
\* RouteChannel without its last step, the "default" channel
RouteNoDefault(name, priority, channels, alarmChannels) ==
    LET channel == Lookup(alarmChannels, name)
    IN  IF channel = "" THEN Lookup(channels, priority) ELSE channel

RouteChannel(name, priority, channels, alarmChannels) ==
    LET channel == Lookup(alarmChannels, name)
    IN  IF channel = ""
        THEN LET byPriority == Lookup(channels, priority)
             IN  IF byPriority = "" THEN Lookup(channels, "default") ELSE byPriority
        ELSE channel

\* the *AlertMessage an adapter returns, and its (nil, err)
AdaptError == [err |-> TRUE, Message |-> "", Priority |-> "", Channel |-> ""]
AlertMessage(message, priority, channel) ==
    [err |-> FALSE, Message |-> message, Priority |-> priority, Channel |-> channel]

(***************************************************************************)
(* AdaptSQSMessageWithRouting.  body.envelopeErr: json.Unmarshal of the    *)
(* body into the envelope fails; body.Message: the envelope's Message      *)
(* string, by what json.Unmarshal makes of it (messageErr, or the alarm).  *)
(***************************************************************************)
AdaptSQSMessageWithRouting(body, channels, alarmChannels) ==
    IF body.envelopeErr THEN AdaptError
    ELSE IF body.Message.messageErr THEN AdaptError
    ELSE LET alarm == body.Message.alarm
             channel == RouteChannel(alarm.AlarmName, determinePriority(alarm),
                                     channels, alarmChannels)
             priority == determinePriority(alarm)
         IN  AlertMessage(formatSlackMessage(alarm), priority, channel)

(***************************************************************************)
(* Legacy webhook: determineGrafanaPriority.                               *)
(***************************************************************************)
GrafanaHeuristicPriority(alert) ==
    LET ruleName == ToLower(alert.RuleName)
        title == ToLower(alert.Title)
    IN  IF Contains(ruleName, "critical") \/ Contains(title, "critical") THEN "P0"
        ELSE IF Contains(ruleName, "prod") \/ Contains(title, "prod") THEN "P0"
        ELSE IF Contains(ruleName, "down") \/ Contains(title, "down") THEN "P0"
        ELSE IF Contains(ruleName, "high") \/ Contains(title, "high") THEN "P1"
        ELSE IF Contains(ruleName, "error") \/ Contains(title, "error") THEN "P1"
        ELSE IF Contains(ruleName, "warning") \/ Contains(title, "warning") THEN "P2"
        ELSE IF Contains(ruleName, "staging") \/ Contains(title, "staging") THEN "P2"
        ELSE "P2"

\* determineGrafanaPriority asking the keywords before the channel tag
HeuristicBeforeTag(alert) ==
    IF GrafanaHeuristicPriority(alert) # "P2" THEN GrafanaHeuristicPriority(alert)
    ELSE IF "channel" \in DOMAIN alert.Tags
            /\ ToUpper(alert.Tags["channel"]) \in {"P0", "P1", "P2"}
    THEN ToUpper(alert.Tags["channel"])
    ELSE "P2"

determineGrafanaPriority(alert) ==
    IF "channel" \in DOMAIN alert.Tags /\ ToUpper(alert.Tags["channel"]) \in {"P0", "P1", "P2"}
    THEN ToUpper(alert.Tags["channel"])
    ELSE GrafanaHeuristicPriority(alert)

(***************************************************************************)
(* Modern (Alertmanager) webhook: adaptAlertmanagerWebhook.                *)
(***************************************************************************)
\* lines 355-370: the channel tag, from commonLabels, else from the first alert's labels
ChannelTag(webhook) ==
    LET common == Lookup(webhook.CommonLabels, "channel")
    IN  IF common = "" /\ Len(webhook.Alerts) > 0
           /\ HasString(webhook.Alerts[1].labels, "channel")
        THEN StringOf(webhook.Alerts[1].labels, "channel")
        ELSE common

\* lines 386-388 and 401-403: the NoData indicators
IsNoDataText(str) ==
    \/ Contains(ToLower(str), "nodata")
    \/ Contains(ToLower(str), "no data")
    \/ Contains(ToLower(str), "data source")

\* one turn of the loop of lines 381-411: this alert sets priority = "P1" and breaks
AlertIsNoData(alert) ==
    \/ HasString(alert.labels, "alertname") /\ IsNoDataText(StringOf(alert.labels, "alertname"))
    \/ HasString(alert.annotations, "description")
          /\ IsNoDataText(StringOf(alert.annotations, "description"))

\* NoDataPriority looking at the first alert only
NoDataFirstAlert(webhook) ==
    IF ToUpper(webhook.Status) = "FIRING" /\ Len(webhook.Alerts) > 0
       /\ AlertIsNoData(webhook.Alerts[1])
    THEN "P1"
    ELSE ""

\* lines 378-412: priority after the NoData check, "" when it is not set
NoDataPriority(webhook) ==
    IF ToUpper(webhook.Status) = "FIRING" /\ Len(webhook.Alerts) > 0
       /\ \E i \in 1..Len(webhook.Alerts) : AlertIsNoData(webhook.Alerts[i])
    THEN "P1"
    ELSE ""

\* lines 376-430
AlertmanagerPriority(webhook) ==
    LET channelTag == ChannelTag(webhook)
        priority == NoDataPriority(webhook)
    IN  IF priority = ""
        THEN IF channelTag # ""
             THEN IF ToUpper(channelTag) \in {"P0", "P1", "P2"}
                  THEN ToUpper(channelTag)
                  ELSE "P2"
             ELSE "P2"
        ELSE priority

\* formatEnhancedAlertMessage, lines 638-647: the name the message shows, from
\* commonLabels, else from the first alert's labels
AlertmanagerName(webhook) ==
    LET alertname == Lookup(webhook.CommonLabels, "alertname")
    IN  IF alertname = "" /\ Len(webhook.Alerts) > 0
           /\ HasString(webhook.Alerts[1].labels, "alertname")
        THEN StringOf(webhook.Alerts[1].labels, "alertname")
        ELSE alertname

\* lines 624-635 and 730-741: the emoji and the state of the status
StatusEmoji(status) ==
    CASE ToUpper(status) = "FIRING" -> RotatingLight
      [] ToUpper(status) = "RESOLVED" -> WhiteCheckMark
      [] OTHER -> BarChart

StatusColor(status) ==
    CASE ToUpper(status) = "FIRING" -> StateColor(RedCircle, "FIRING")
      [] ToUpper(status) = "RESOLVED" -> StateColor(GreenCircle, "RESOLVED")
      [] OTHER -> Backquote \o status \o Backquote

\* lines 649-651 and 755-757
AlertmanagerHeader(webhook) ==
    StatusEmoji(webhook.Status) \o " *Grafana Alert: " \o AlertmanagerName(webhook) \o "*\n"
    \o Bullet \o " *State:* " \o StatusColor(webhook.Status)

\* lines 657-665 and 762-770: the description, else (when there is no
\* "description" key at all) the summary, of the annotations
DescriptionLine(annotations) ==
    LET key == IF "description" \in DOMAIN annotations.m THEN "description" ELSE "summary"
    IN  IF key \in DOMAIN annotations.m /\ HasString(annotations, key)
           /\ StringOf(annotations, key) # ""
        THEN "\n" \o Bullet \o " *Description:* " \o StringOf(annotations, key)
        ELSE ""

\* lines 676-679: the key with spaces for underscores and its first byte in upper case
FormattedKey(key) ==
    LET spaced == UnderscoresToSpaces(key)
    IN  IF Len(spaced) > 0
        THEN ToUpper(SubSeq(spaced, 1, 1)) \o SubSeq(spaced, 2, Len(spaced))
        ELSE spaced

\* lines 668-682: one turn of the loop over the annotations
AnnotationLine(annotations, key) ==
    IF key = "description" \/ key = "summary" THEN ""
    ELSE IF HasString(annotations, key) /\ StringOf(annotations, key) # ""
    THEN "\n" \o Bullet \o " *" \o FormattedKey(key) \o ":* " \o StringOf(annotations, key)
    ELSE ""

\* a member of the first alert that is a string and not empty, else ""
AlertText(jv) == IF jv.t = "str" THEN jv.s ELSE ""

\* lines 774-779 and 701-706
GeneratorLine(alert) ==
    IF AlertText(alert.generatorURL) # ""
    THEN "\n" \o Bullet \o " *Dashboard:* <" \o AlertText(alert.generatorURL)
         \o "|View Alert Rule>"
    ELSE ""

\* order: the order in which the range of line 668 visits the annotations
formatEnhancedAlertMessage(webhook, order) ==
    LET alert == webhook.Alerts[1]
        annotations ==
            IF Len(webhook.Alerts) > 0 /\ alert.annotations.t = "obj"
            THEN DescriptionLine(alert.annotations)
                 \o Join([i \in 1..Len(order) |-> AnnotationLine(alert.annotations, order[i])], "")
            ELSE ""
        valueString ==
            IF Len(webhook.Alerts) > 0 /\ AlertText(alert.valueString) # ""
            THEN "\n" \o Bullet \o " *ValueString:* " \o AlertText(alert.valueString)
            ELSE ""
        silence ==
            IF Len(webhook.Alerts) > 0 /\ AlertText(alert.silenceURL) # ""
            THEN "\n" \o Bullet \o " *Silence:* <" \o AlertText(alert.silenceURL)
                 \o "|Silence Alert>"
            ELSE ""
        generator == IF Len(webhook.Alerts) > 0 THEN GeneratorLine(alert) ELSE ""
        dashboard ==
            IF Len(webhook.Alerts) > 0 /\ AlertText(alert.dashboardURL) # ""
               /\ AlertText(alert.dashboardURL) # AlertText(alert.generatorURL)
            THEN "\n" \o Bullet \o " *Dashboard:* <" \o AlertText(alert.dashboardURL)
                 \o "|View Dashboard>"
            ELSE ""
    IN  AlertmanagerHeader(webhook) \o annotations \o valueString \o silence \o generator
        \o dashboard

formatBasicAlertMessage(webhook) ==
    LET alert == webhook.Alerts[1]
        description ==
            IF Len(webhook.Alerts) > 0 /\ alert.annotations.t = "obj"
            THEN DescriptionLine(alert.annotations)
            ELSE ""
        generator == IF Len(webhook.Alerts) > 0 THEN GeneratorLine(alert) ELSE ""
    IN  AlertmanagerHeader(webhook) \o description \o generator

\* lines 607-613: the enhanced message unless it is empty
formatAlertmanagerSlackMessage(webhook, order) ==
    IF formatEnhancedAlertMessage(webhook, order) # ""
    THEN formatEnhancedAlertMessage(webhook, order)
    ELSE formatBasicAlertMessage(webhook)

adaptAlertmanagerWebhook(webhook, channels, alarmChannels, order) ==
    LET priority == AlertmanagerPriority(webhook)
        alertname == Lookup(webhook.CommonLabels, "alertname")
        channel == RouteChannel(alertname, priority, channels, alarmChannels)
    IN  AlertMessage(formatAlertmanagerSlackMessage(webhook, order.annotations),
                     priority, channel)

(***************************************************************************)
(* The message of a legacy webhook: formatGrafanaSlackMessage.  The value  *)
(* of a match is a float64 in the code; the model holds it in hundredths   *)
(* (a natural number), so that %.2f prints it exactly.                     *)
(***************************************************************************)
\* lines 549-552: %.0f of a whole value, else %.2f
FormatHundredths(value) ==
    IF value % 100 = 0 THEN Itoa(value \div 100)
    ELSE Itoa(value \div 100) \o "." \o Itoa((value % 100) \div 10) \o Itoa(value % 10)

\* lines 556-567: the tags of a match, visited in this order
MatchTagsText(tags, order) ==
    LET important == SelectSeq(order, LAMBDA k : k \notin {"__name__", "job", "instance"})
        importantTags == [i \in 1..Len(important) |->
                             Backquote \o important[i] \o "=" \o tags[important[i]] \o Backquote]
    IN  IF DOMAIN tags # {} /\ Len(importantTags) > 0
        THEN " (" \o Join(importantTags, ", ") \o ")"
        ELSE ""

\* lines 547-568: one turn of the loop over the matches
MatchText(match, order) ==
    "\n   " \o Arrow \o " " \o Backquote \o match.Metric \o Backquote \o ": **"
    \o FormatHundredths(match.Value) \o "**" \o MatchTagsText(match.Tags, order)

\* lines 572-583: the tags of the alert, visited in this order
LabelsText(tags, order) ==
    LET important == SelectSeq(order, LAMBDA k : k # "channel" /\ tags[k] # "")
        importantTags == [i \in 1..Len(important) |->
                             "   " \o Arrow \o " " \o Backquote \o important[i] \o Backquote
                             \o ": " \o tags[important[i]]]
    IN  IF Len(importantTags) > 0
        THEN "\n" \o Bullet \o " *Labels:*\n" \o Join(importantTags, "\n")
        ELSE ""

\* order.tags: the order in which the range of line 574 visits alert.Tags;
\* order.matches[i]: the order in which the range of line 558 visits the tags
\* of match i
formatGrafanaSlackMessage(alert, order) ==
    LET emoji ==
            CASE ToUpper(alert.State) = "ALERTING" -> RotatingLight
              [] ToUpper(alert.State) = "OK" -> WhiteCheckMark
              [] ToUpper(alert.State) = "NO_DATA" -> WarningSign
              [] ToUpper(alert.State) = "PENDING" -> Hourglass
              [] OTHER -> BarChart
        stateColor ==
            CASE ToUpper(alert.State) = "ALERTING" -> StateColor(RedCircle, "ALERTING")
              [] ToUpper(alert.State) = "OK" -> StateColor(GreenCircle, "OK")
              [] ToUpper(alert.State) = "NO_DATA" -> StateColor(YellowCircle, "NO_DATA")
              [] ToUpper(alert.State) = "PENDING" -> StateColor(YellowCircle, "PENDING")
              [] OTHER -> Backquote \o alert.State \o Backquote
        rule ==
            IF alert.RuleName # "" /\ alert.RuleName # alert.Title
            THEN "\n" \o Bullet \o " *Rule:* " \o Backquote \o alert.RuleName \o Backquote
            ELSE ""
        description ==
            IF alert.Message # ""
            THEN "\n" \o Bullet \o " *Description:* " \o alert.Message
            ELSE ""
        metrics ==
            IF Len(alert.EvalMatches) > 0
            THEN "\n" \o Bullet \o " *Metrics:*"
                 \o Join([i \in 1..Len(alert.EvalMatches) |->
                             MatchText(alert.EvalMatches[i], order.matches[i])], "")
            ELSE ""
        dashboard ==
            IF alert.RuleURL # ""
            THEN "\n" \o Bullet \o " *Dashboard:* <" \o alert.RuleURL \o "|View Alert Rule>"
            ELSE ""
    IN  emoji \o " *Grafana Alert: " \o alert.Title \o "*\n"
        \o Bullet \o " *State:* " \o stateColor
        \o rule \o description \o metrics \o LabelsText(alert.Tags, order.tags) \o dashboard

(***************************************************************************)
(* AdaptGrafanaWebhook.  body.amErr: json.Unmarshal of the body into the   *)
(* Alertmanager struct fails; body.am: that struct; body.legacyErr and     *)
(* body.legacy: the same for the GrafanaWebhook struct.  order: the orders *)
(* in which the formatters visit the maps of the body.                     *)
(***************************************************************************)
AdaptGrafanaWebhook(body, channels, alarmChannels, order) ==
    IF ~body.amErr /\ Len(body.am.Alerts) > 0
    THEN adaptAlertmanagerWebhook(body.am, channels, alarmChannels, order)
    ELSE IF body.legacyErr THEN AdaptError
    ELSE LET grafanaAlert == body.legacy
             channel == RouteChannel(grafanaAlert.RuleName,
                                     determineGrafanaPriority(grafanaAlert),
                                     channels, alarmChannels)
             priority == determineGrafanaPriority(grafanaAlert)
         IN  AlertMessage(formatGrafanaSlackMessage(grafanaAlert, order), priority, channel)

(***************************************************************************)
(* The interactive callback: verifySlackRequest.                           *)
(***************************************************************************)
\* strconv.ParseInt(s, 10, 64): an optional sign, then one or more digits.
\* (The timestamps of the model have at most 9 digits, so the range error of
\* ParseInt and the wrap-around of the int64 subtraction are not reached.)
ParseInt(s) ==
    LET signed == Len(s) > 0 /\ CharAt(s, 1) \in {"+", "-"}
        digits == IF signed THEN SubSeq(s, 2, Len(s)) ELSE s
        ok == Len(digits) > 0 /\ \A i \in 1..Len(digits) : IsDigit(CharAt(digits, i))
        magnitude == IF ok THEN DecimalValue(digits, Len(digits)) ELSE 0
    IN  [err |-> ~ok,
         value |-> IF signed /\ CharAt(s, 1) = "-" THEN 0 - magnitude ELSE magnitude]

\* line 232: the age, in seconds, above which a request is rejected
ReplayWindow == 300

(***************************************************************************)
(* A signature header is modelled by the term its text denotes: prefix,    *)
(* then the hex of HMAC-SHA256(key, msg).  HMAC-SHA256 is taken to be      *)
(* collision-free, so hmac.Equal on two texts is equality of their terms.  *)
(* NoSignature is the empty text (an absent header).                       *)
(***************************************************************************)
SignatureText(prefix, key, msg) == [prefix |-> prefix, key |-> key, msg |-> msg]
NoSignature == SignatureText("", "", "")

\* BaseString leaving the body out of what is signed
BaseStringNoBody(timestamp, body) == "v0:" \o timestamp \o ":"

\* line 237
BaseString(timestamp, body) == "v0:" \o timestamp \o ":" \o body

\* lines 238-240
ExpectedSignature(secret, timestamp, body) ==
    SignatureText("v0=", secret, BaseString(timestamp, body))

verifySlackRequest(timestamp, signature, body, secret, clock) ==
    IF timestamp = "" \/ signature = NoSignature THEN FALSE
    ELSE IF ParseInt(timestamp).err THEN FALSE
    ELSE IF clock - ParseInt(timestamp).value > ReplayWindow THEN FALSE
    ELSE signature = ExpectedSignature(secret, timestamp, body)

(***************************************************************************)
(* extractAlertInfo.                                                       *)
(***************************************************************************)
IsSpace(c) == c \in {" ", "\t", "\n", "\r"}

RECURSIVE TrimLeft(_)
TrimLeft(s) == IF Len(s) > 0 /\ IsSpace(CharAt(s, 1)) THEN TrimLeft(SubSeq(s, 2, Len(s))) ELSE s

RECURSIVE TrimRight(_)
TrimRight(s) ==
    IF Len(s) > 0 /\ IsSpace(CharAt(s, Len(s))) THEN TrimRight(SubSeq(s, 1, Len(s) - 1)) ELSE s

\* strings.TrimSpace
TrimSpace(s) == TrimRight(TrimLeft(s))

\* the places where the regular expression  marker([^stop]+)  matches in text
MatchStarts(text, marker, stop) ==
    {i \in 1..Len(text) :
        /\ i + Len(marker) <= Len(text)
        /\ SubSeq(text, i, i + Len(marker) - 1) = marker
        /\ CharAt(text, i + Len(marker)) \notin stop}

RECURSIVE RunEnd(_, _, _)
\* the last index of the run of characters outside stop that starts at index i
RunEnd(text, i, stop) ==
    IF i + 1 <= Len(text) /\ CharAt(text, i + 1) \notin stop
    THEN RunEnd(text, i + 1, stop)
    ELSE i

\* re.FindStringSubmatch(text)[1] for  marker([^stop]+) : the leftmost match, its
\* group taken as long as it goes; "" when there is no match
FirstGroup(text, marker, stop) ==
    LET starts == MatchStarts(text, marker, stop)
    IN  IF starts = {} THEN ""
        ELSE LET i == CHOOSE j \in starts : \A k \in starts : j <= k
                 from == i + Len(marker)
             IN  SubSeq(text, from, RunEnd(text, from, stop))

AlertInfo(name, description) == [Name |-> name, Description |-> description]

extractAlertInfo(text) ==
    IF Contains(text, "Grafana Alert:")
    THEN AlertInfo(TrimSpace(FirstGroup(text, "Grafana Alert: ", {"*", "\n"})),
                   TrimSpace(FirstGroup(text, Bullet \o " *Description:* ", {"\n"})))
    ELSE IF Contains(text, "CloudWatch Alarm:")
    THEN AlertInfo(TrimSpace(FirstGroup(text, "CloudWatch Alarm: ", {"*", "\n"})),
                   TrimSpace(FirstGroup(text, Bullet \o " *Reason:* ", {"\n"})))
    ELSE AlertInfo("", "")

(***************************************************************************)
(* handleInteractive: the part after the payload is decoded.               *)
(***************************************************************************)
RECURSIVE InfoFromBlocks(_, _, _)
\* lines 153-160: the loop over the blocks from block i on, alertInfo being info
InfoFromBlocks(blocks, i, info) ==
    IF i > Len(blocks) THEN info
    ELSE IF blocks[i].Type = "section"
         THEN LET found == extractAlertInfo(blocks[i].Text)
              IN  IF found.Name # "" THEN found ELSE InfoFromBlocks(blocks, i + 1, found)
         ELSE InfoFromBlocks(blocks, i + 1, info)

\* lines 149-161
PayloadAlertInfo(payload) ==
    LET alertInfo == extractAlertInfo(payload.MessageText)
    IN  IF alertInfo.Name = "" THEN InfoFromBlocks(payload.Blocks, 1, alertInfo) ELSE alertInfo

\* ActionOutcome comparing the action id whatever its case
ActionOutcomeFolded(actionType) ==
    IF ToLower(actionType) = "acknowledge" THEN "ACKNOWLEDGED"
    ELSE IF ToLower(actionType) = "dismiss" THEN "DISMISSED"
    ELSE "UNKNOWN_ACTION"

\* lines 164-190: the outcome the switch on the action id takes
ActionOutcome(actionType) ==
    IF actionType = "acknowledge" THEN "ACKNOWLEDGED"
    ELSE IF actionType = "dismiss" THEN "DISMISSED"
    ELSE "UNKNOWN_ACTION"

HandledNote == "\n\n_This alert is now being handled._"
DismissedNote == "\n\n_This alert has been dismissed and will not be actioned._"

\* lines 163-190
ResponseText(actionType, alertInfo, alertID, user) ==
    LET description ==
            IF alertInfo.Description # ""
            THEN "\n" \o Bullet \o " *Description:* " \o alertInfo.Description
            ELSE ""
    IN  IF actionType = "acknowledge"
        THEN IF alertInfo.Name # ""
             THEN WhiteCheckMark \o " **Alert '" \o alertInfo.Name \o "' acknowledged by "
                  \o user \o "**" \o description \o HandledNote
             ELSE WhiteCheckMark \o " **Alert " \o alertID \o " acknowledged by "
                  \o user \o "**" \o HandledNote
        ELSE IF actionType = "dismiss"
        THEN IF alertInfo.Name # ""
             THEN CrossMark \o " **Alert '" \o alertInfo.Name \o "' dismissed by "
                  \o user \o "**" \o description \o DismissedNote
             ELSE CrossMark \o " **Alert " \o alertID \o " dismissed by "
                  \o user \o "**" \o DismissedNote
        ELSE "Unknown action: " \o actionType

\* sendSlackResponseErr without the check of the status
sendSlackResponseErrOnly(post) == post.err

\* sendSlackResponse, lines 316-328: an error when http.Post returned one (post.err)
\* or the status of the response is not 200
sendSlackResponseErr(post) == post.err \/ post.StatusCode # 200

(***************************************************************************)
(* Inputs of the adapters.                                                 *)
(***************************************************************************)
\* alerts in one modern webhook
MaxAlerts == 2

Dimension(name, value) == [name |-> name, value |-> value]

Trigger(namespace) ==
    [MetricName |-> "CPUUtilization", Namespace |-> namespace,
     ComparisonOperator |-> "GreaterThanThreshold", Threshold |-> 805, Period |-> 300,
     EvaluationPeriods |-> 2,
     Dimensions |-> IF namespace = "AWS/EC2"
                    THEN <<Dimension("InstanceId", "i-0abc"), Dimension("Zone", "a")>>
                    ELSE <<>>]

CloudWatchAlarm(name, state, namespace) ==
    [AlarmName |-> name, NewStateValue |-> state, OldStateValue |-> "OK",
     NewStateReason |-> "Threshold Crossed", Region |-> "ap-south-1",
     StateChangeTime |-> IF namespace = "AWS/RDS" THEN "yesterday"
                         ELSE "2025-07-23T13:32:26.882+0000",
     Trigger |-> Trigger(namespace)]

\* the zero value of the struct
ZeroAlarm ==
    [AlarmName |-> "", NewStateValue |-> "", OldStateValue |-> "", NewStateReason |-> "",
     Region |-> "", StateChangeTime |-> "",
     Trigger |-> [MetricName |-> "", Namespace |-> "", ComparisonOperator |-> "",
                  Threshold |-> 0, Period |-> 0, EvaluationPeriods |-> 0,
                  Dimensions |-> <<>>]]

\* a queue body: what json.Unmarshal makes of it as an envelope and of the
\* envelope's Message as an alarm; bare tells whether the body itself is the
\* JSON of an alarm, and which (the code never decodes the body that way)
SQSBody(envelopeErr, messageErr, alarm) ==
    [envelopeErr |-> envelopeErr, Message |-> [messageErr |-> messageErr, alarm |-> alarm],
     bare |-> [isAlarm |-> FALSE, alarm |-> ZeroAlarm]]

\* the JSON of an alarm sent without an envelope: it decodes as an envelope
\* whose Message is "", and "" is no JSON
BareAlarmBody(alarm) ==
    [envelopeErr |-> FALSE, Message |-> [messageErr |-> TRUE, alarm |-> ZeroAlarm],
     bare |-> [isAlarm |-> TRUE, alarm |-> alarm]]

AlarmNames == {"prod-db-cpu-high", "disk-full", "staging-redis", "QA-Memory", "api-error-rate", ""}
Namespaces == {"AWS/RDS", "AWS/EC2", "AWS/ApplicationELB", "AWS/Lambda", ""}

\* a body that is no JSON object; an object without "Message" (so Message is "",
\* which json.Unmarshal rejects), such as a bare alarm payload; a Message that is
\* no JSON; a Message that decodes into the alarm struct; the Message "{}" and a
\* Message without "NewStateValue" (the fields absent are the zero value)
SQSBodies ==
    {SQSBody(TRUE, TRUE, ZeroAlarm), SQSBody(FALSE, TRUE, ZeroAlarm)}
    \cup {SQSBody(FALSE, FALSE, CloudWatchAlarm(n, "ALARM", ns)) :
              n \in AlarmNames, ns \in Namespaces}
    \cup {SQSBody(FALSE, FALSE, ZeroAlarm),
          SQSBody(FALSE, FALSE, CloudWatchAlarm("disk-full", "", "AWS/EC2"))}
    \cup {BareAlarmBody(CloudWatchAlarm(n, "ALARM", "AWS/EC2")) :
              n \in {"disk-full", "prod-db-cpu-high"}}

TagsOf(channelTag) ==
    IF channelTag = "-" THEN [k \in {"team"} |-> "infra"]
    ELSE [k \in {"team", "channel"} |-> IF k = "team" THEN "infra" ELSE channelTag]

EvalMatch(value, metric, tags) == [Value |-> value, Metric |-> metric, Tags |-> tags]

GrafanaWebhook(ruleName, title, tags) ==
    [RuleID |-> 7, RuleName |-> ruleName, Title |-> title, State |-> "alerting",
     Tags |-> tags, Message |-> IF ruleName = "disk" THEN "" ELSE "disk is filling up",
     EvalMatches |-> <<>>, RuleURL |-> IF ruleName = "disk" THEN "" ELSE "http://grafana/r/7"]

Alertmanager(alerts, commonLabels, status, title) ==
    [Alerts |-> alerts, CommonLabels |-> commonLabels, Status |-> status,
     Title |-> title, Message |-> ""]

WebhookBody(amErr, am, legacyErr, legacy) ==
    [amErr |-> amErr, am |-> am, legacyErr |-> legacyErr, legacy |-> legacy]

ZeroAlertmanager == Alertmanager(<<>>, EmptyMap, "", "")
ZeroGrafana ==
    [RuleID |-> 0, RuleName |-> "", Title |-> "", State |-> "", Tags |-> EmptyMap,
     Message |-> "", EvalMatches |-> <<>>, RuleURL |-> ""]

RuleNames == {"critical disk", "High error rate", "disk", ""}
Titles == {"[Alerting] prod down", "disk"}
\* "-" : no channel tag
ChannelTags == {"-", "P2", "p0", "P1", "ops", ""}

\* the tags and the matches of a webhook whose maps hold more than one entry
ManyTags ==
    [k \in {"team", "env", "channel", "note"} |->
        CASE k = "team" -> "infra" [] k = "env" -> "live" [] k = "channel" -> "P1"
          [] OTHER -> ""]

ManyMatches ==
    <<EvalMatch(9150, "disk_used", [k \in {"job", "host", "mount"} |->
                    CASE k = "job" -> "node" [] k = "host" -> "db1" [] OTHER -> "/var"]),
      EvalMatch(42, "inodes", EmptyMap)>>

LegacyBodies ==
    {WebhookBody(FALSE, Alertmanager(<<>>, EmptyMap, "", t), FALSE,
                 GrafanaWebhook(r, t, TagsOf(c))) :
        r \in RuleNames, t \in Titles, c \in ChannelTags}
    \cup {WebhookBody(FALSE, Alertmanager(<<>>, EmptyMap, "", "disk"), FALSE,
                      [GrafanaWebhook("disk", "disk", ManyTags) EXCEPT !.State = st,
                                                                       !.EvalMatches = m]) :
              st \in {"ok", "no_data", "pending", "paused"}, m \in {<<>>, ManyMatches}}

Alert(labels, annotations) ==
    [labels |-> labels, annotations |-> annotations, valueString |-> JAbsent,
     silenceURL |-> JAbsent, generatorURL |-> JAbsent, dashboardURL |-> JAbsent]

AlertSet ==
    {[Alert(JObj([k \in {"alertname"} |-> JStr("HighCPU")]),
            JObj([k \in {"description", "runbook_url", "team"} |->
                     CASE k = "description" -> JStr("cpu over 90")
                       [] k = "runbook_url" -> JStr("http://runbooks/cpu")
                       [] OTHER -> JStr("infra")]))
         EXCEPT !.valueString = JStr("A=93"), !.silenceURL = JStr("http://grafana/s"),
                !.generatorURL = JStr("http://grafana/g"),
                !.dashboardURL = JStr("http://grafana/d")],
     Alert(JObj([k \in {"alertname"} |-> JStr("DatasourceNoData")]), JAbsent),
     Alert(JObj([k \in {"alertname", "channel"} |->
                    IF k = "alertname" THEN JStr("DiskFull") ELSE JStr("p0")]),
           JObj([k \in {"description"} |-> JStr("No Data from the disk probe")])),
     Alert(JNum, JObj([k \in {"description"} |-> JNum])),
     Alert(JObj([k \in {"alertname"} |-> JNum]),
           JObj([k \in {"summary"} |-> JStr("Data Source unreachable")]))}

AlertLists == UNION {[1..n -> AlertSet] : n \in 1..MaxAlerts}

CommonLabelSets ==
    {EmptyMap,
     [k \in {"alertname"} |-> "HighCPU"],
     [k \in {"alertname", "channel"} |-> IF k = "alertname" THEN "DiskFull" ELSE "P2"],
     [k \in {"channel"} |-> "P0"]}

Statuses == {"firing", "Firing", "resolved"}

ModernBodies ==
    {WebhookBody(FALSE, Alertmanager(a, c, st, ""), FALSE, ZeroGrafana) :
        a \in AlertLists, c \in CommonLabelSets, st \in Statuses}

\* a body that is no JSON; a body whose "alerts" is not a list of objects and
\* whose other members fit the legacy struct; a body that fits the Alertmanager
\* struct and whose "ruleId" is no number; a JSON object with no member of
\* either struct, such as {} or a cloud alarm payload
OddBodies ==
    {WebhookBody(TRUE, ZeroAlertmanager, TRUE, ZeroGrafana),
     WebhookBody(TRUE, ZeroAlertmanager, FALSE, GrafanaWebhook("disk", "disk", EmptyMap)),
     WebhookBody(FALSE, ZeroAlertmanager, TRUE, ZeroGrafana),
     WebhookBody(FALSE, ZeroAlertmanager, FALSE, ZeroGrafana)}

WebhookBodies == LegacyBodies \cup ModernBodies \cup OddBodies

\* LoadConfig, lines 57-62, with no SLACK_CHANNEL_* variable set
DefaultChannels ==
    [k \in {"P0", "P1", "P2", "default"} |->
        CASE k = "P0" -> "#p0-infra-alerts"
          [] k = "P1" -> "#p1-infra-alerts"
          [] k = "P2" -> "#p2-infra-alerts"
          [] OTHER -> "#alerts"]

\* the tables the adapters are given: LoadConfig's, and tables with priority
\* entries absent or empty ("default" is present and not empty in each)
ChannelTables ==
    {DefaultChannels,
     [k \in {"default"} |-> "#alerts"],
     [k \in {"P0", "P1", "P2", "default"} |-> IF k = "default" THEN "#alerts" ELSE ""],
     [k \in {"P1", "default"} |-> IF k = "default" THEN "#alerts" ELSE "#p1"]}

\* loadAlarmChannelMappings: empty (no file), or what alarm-channels.yaml holds
AlarmChannelTables ==
    {EmptyMap,
     [k \in {"disk-full", "disk", "HighCPU", "DiskFull"} |-> "#pinned"],
     [k \in {"prod-db-cpu-high", "critical disk", "DiskFull", ""} |->
         IF k = "" THEN "#unnamed" ELSE ""]}

(***************************************************************************)
(* State.                                                                  *)
(***************************************************************************)
VARIABLES
    \* Config.SlackChannels and Config.AlarmChannels
    channels, alarmChannels,
    \* one call of an adapter: the function called, its body, what it returned
    adaptFn, adaptIn, adaptOut, adaptDone,
    \* the queue (the messages not deleted), the messages sent so far
    queue, sent,
    \* Poller.Poll: where the loop is, out.Messages (as receipts), the index of msg,
    \* the handler's alertMsg, and the record of every receipt
    pollPc, batch, cur, alertMsg, receipts,
    \* time.Now().Unix()
    now,
    \* handleInteractive: the request being served, where the handler is, the
    \* state of the action state machine, the outcome text, the posts made to
    \* the response URL, the status written to the caller, the requests so far
    \* what verifySlackRequest answered for the request and the time it read
    req, cbPc, cbState, responseText, posts, httpStatus, served, verdict, clockRead,
    \* runs of a formatter on one alert: the layout, the alert, the text of each run
    fmtLayout, fmtIn, fmtTexts,
    \* the HTTP server: the requests being served, each by its own goroutine, and
    \* the local variables of each running handler
    calls, frames

configVars == <<channels, alarmChannels>>
adaptVars == <<adaptFn, adaptIn, adaptOut, adaptDone>>
pollVars == <<queue, sent, pollPc, batch, cur, alertMsg, receipts>>
cbVars == <<now, req, cbPc, cbState, responseText, posts, httpStatus, served,
           verdict, clockRead>>
fmtVars == <<fmtLayout, fmtIn, fmtTexts>>
callVars == <<calls, frames>>
vars == <<configVars, adaptVars, pollVars, cbVars, fmtVars, callVars>>

(***************************************************************************)
(* Calls of the adapters on every input.                                   *)
(***************************************************************************)
AdaptIdle ==
    /\ adaptFn = "none"
    /\ adaptIn = SQSBody(TRUE, TRUE, ZeroAlarm)
    /\ adaptOut = AdaptError
    /\ adaptDone = FALSE

AdaptInputs ==
    /\ adaptFn \in {"AdaptSQSMessageWithRouting", "AdaptGrafanaWebhook"}
    /\ adaptIn \in IF adaptFn = "AdaptSQSMessageWithRouting" THEN SQSBodies ELSE WebhookBodies
    /\ adaptOut = AdaptError
    /\ adaptDone = FALSE

CallAdaptSQS ==
    /\ adaptFn = "AdaptSQSMessageWithRouting" /\ ~adaptDone
    /\ adaptOut' = AdaptSQSMessageWithRouting(adaptIn, channels, alarmChannels)
    /\ adaptDone' = TRUE
    /\ UNCHANGED <<adaptFn, adaptIn, configVars, callVars, pollVars, cbVars, fmtVars>>

\* the orders in which one call of AdaptGrafanaWebhook may visit the maps of the
\* body: the tags of the legacy alert and of each of its matches (lines 574 and
\* 558), and the annotations of the first alert (line 668)
MatchOrders(matches) ==
    {m \in [1..Len(matches) -> UNION {RangeOrders(DOMAIN matches[i].Tags) : i \in 1..Len(matches)}] :
        \A i \in 1..Len(matches) : m[i] \in RangeOrders(DOMAIN matches[i].Tags)}

AnnotationOrders(webhook) ==
    IF Len(webhook.Alerts) > 0 /\ webhook.Alerts[1].annotations.t = "obj"
    THEN RangeOrders(DOMAIN webhook.Alerts[1].annotations.m)
    ELSE {<<>>}

WebhookOrders(body) ==
    {[tags |-> t, matches |-> m, annotations |-> a] :
        t \in RangeOrders(DOMAIN body.legacy.Tags),
        m \in MatchOrders(body.legacy.EvalMatches),
        a \in AnnotationOrders(body.am)}

CallAdaptGrafana ==
    /\ adaptFn = "AdaptGrafanaWebhook" /\ ~adaptDone
    /\ \E order \in WebhookOrders(adaptIn) :
          adaptOut' = AdaptGrafanaWebhook(adaptIn, channels, alarmChannels, order)
    /\ adaptDone' = TRUE
    /\ UNCHANGED <<adaptFn, adaptIn, configVars, callVars, pollVars, cbVars, fmtVars>>

(***************************************************************************)
(* The polling loop: Poller.Poll with the handler of main.                 *)
(***************************************************************************)
\* line 34: MaxNumberOfMessages
MaxNumberOfMessages == 5

\* the bodies sent to the queue
PollBodies ==
    {SQSBody(TRUE, TRUE, ZeroAlarm),
     SQSBody(FALSE, FALSE, CloudWatchAlarm("disk-full", "ALARM", "AWS/EC2")),
     SQSBody(FALSE, FALSE, CloudWatchAlarm("prod-db-cpu-high", "ALARM", "AWS/RDS"))}

PollIdle ==
    /\ queue = {}
    /\ sent = 0
    /\ pollPc = "receive"
    /\ batch = <<>>
    /\ cur = 0
    /\ alertMsg = AdaptError
    /\ receipts = <<>>

\* a message arrives in the queue (the work of SNS, not of this program)
SendMessage ==
    /\ sent < MaxMsgs
    /\ \E b \in PollBodies : queue' = queue \cup {[id |-> sent + 1, body |-> b]}
    /\ sent' = sent + 1
    /\ UNCHANGED <<pollPc, batch, cur, alertMsg, receipts, configVars, callVars, adaptVars, cbVars, fmtVars>>

\* slack_notifier.go, lines 26-52: the message NotifyWithButtons posts to the
\* channel; both buttons carry alertID, "alert_<len(message)>" when it is empty
NotifyWithButtons(channel, message, alertID) ==
    [channel |-> channel, text |-> message,
     value |-> IF alertID = "" THEN "alert_" \o Itoa(Len(message)) ELSE alertID]

\* slack_notifier.go, lines 22-24
Notify(channel, message) == NotifyWithButtons(channel, message, "")

\* nothing posted
NoPost == [channel |-> "", text |-> "", value |-> ""]

Receipt(msg) ==
    [msg |-> msg, handlerCalls |-> 0, notifyCalls |-> 0, deleteCalls |-> 0,
     handlerErr |-> "pending", post |-> NoPost]

\* the orders in which the messages of S may come in out.Messages
Orderings(S) ==
    {f \in [1..Cardinality(S) -> S] : \A i, j \in 1..Cardinality(S) : f[i] = f[j] => i = j}

\* lines 32-36, err == nil: any messages of the queue, at most
\* MaxNumberOfMessages; their receipts are recorded after those of history
ReceiveInto(history) ==
    /\ pollPc = "receive"
    /\ \E S \in SUBSET queue :
          /\ Cardinality(S) <= MaxNumberOfMessages
          /\ Len(history) + Cardinality(S) <= MaxReceipts
          /\ \E order \in Orderings(S) :
                /\ receipts' = history \o [i \in 1..Cardinality(S) |-> Receipt(order[i])]
                /\ batch' = [i \in 1..Cardinality(S) |-> Len(history) + i]
                /\ cur' = IF S = {} THEN 0 ELSE 1
                /\ pollPc' = IF S = {} THEN "receive" ELSE "handle"
    /\ UNCHANGED <<queue, sent, alertMsg, configVars, callVars, adaptVars, cbVars, fmtVars>>

\* ReceiveMessage, the receipts of every batch kept on record
ReceiveMessage == ReceiveInto(receipts)

\* ReceiveMessage in a loop that runs for ever: only the receipts of the
\* current batch are kept on record
ReceiveMessageAgain == ReceiveInto(<<>>)

\* lines 37-41: the error is logged and, after the sleep, the loop goes on
ReceiveMessageError ==
    /\ pollPc = "receive"
    /\ batch' = <<>>
    /\ cur' = 0
    /\ UNCHANGED <<queue, sent, pollPc, alertMsg, receipts, configVars, callVars, adaptVars, cbVars, fmtVars>>

\* where the loop goes after msg: the next message of the batch, or line 32
AfterMessage == IF cur < Len(batch) THEN "handle" ELSE "receive"

\* AfterHandler deleting the message whatever the handler returned
AfterHandlerAlwaysDelete(failed) == "delete"

\* AfterHandler attempting the delivery again after a failure
AfterHandlerRetry(failed) == IF failed THEN "notify" ELSE "delete"

\* AfterHandler ending the process at a handler error
AfterHandlerFatal(failed) == IF failed THEN "stopped" ELSE "delete"

\* lines 46-57: after the handler returned, DeleteMessage if its error is nil,
\* else the error is logged and the loop goes on
AfterHandler(failed) == IF failed THEN AfterMessage ELSE "delete"

\* AfterAdapt returning nil without the delivery
AfterAdaptNoDelivery(failed) == AfterHandler(failed)

\* main, lines 26-34: the handler returns the adapter's error, else it goes on
\* to the delivery
AfterAdapt(failed) == IF failed THEN AfterHandler(TRUE) ELSE "notify"

\* main, lines 25-28: the handler is called (line 46) and adapts the body
HandlerAdapt ==
    /\ pollPc = "handle"
    /\ \E r \in {batch[cur]} :
          \E out \in {AdaptSQSMessageWithRouting(receipts[r].msg.body, channels,
                                                 alarmChannels)} :
             /\ alertMsg' = out
             /\ receipts' = [receipts EXCEPT ![r].handlerCalls = @ + 1,
                                             ![r].handlerErr = IF out.err THEN "error" ELSE @]
             /\ pollPc' = AfterAdapt(out.err)
             /\ cur' = IF pollPc' \in {"notify", "delete"} THEN cur ELSE cur + 1
    /\ UNCHANGED <<queue, sent, batch, configVars, callVars, adaptVars, cbVars, fmtVars>>

\* main, lines 31-34: Notify posts the message to the channel and returns its error
HandlerNotify ==
    /\ pollPc = "notify"
    /\ \E delivered \in BOOLEAN :
          /\ receipts' = [receipts EXCEPT ![batch[cur]].notifyCalls = @ + 1,
                                          ![batch[cur]].post =
                                              Notify(alertMsg.Channel, alertMsg.Message),
                                          ![batch[cur]].handlerErr =
                                              IF delivered THEN "nil" ELSE "error"]
          /\ pollPc' = AfterHandler(~delivered)
          /\ cur' = IF pollPc' = "delete" THEN cur ELSE cur + 1
    /\ UNCHANGED <<queue, sent, batch, alertMsg, configVars, callVars, adaptVars, cbVars, fmtVars>>

\* lines 46-54: the handler returned nil; DeleteMessage, its error only logged
DeleteMessage ==
    /\ pollPc = "delete"
    /\ \E deleted \in BOOLEAN :
          queue' = IF deleted THEN queue \ {receipts[batch[cur]].msg} ELSE queue
    /\ receipts' = [receipts EXCEPT ![batch[cur]].deleteCalls = @ + 1]
    /\ pollPc' = AfterMessage
    /\ cur' = cur + 1
    /\ UNCHANGED <<sent, batch, alertMsg, configVars, callVars, adaptVars, cbVars, fmtVars>>

(***************************************************************************)
(* Interactive callbacks: the requests.                                    *)
(***************************************************************************)
\* Config.SlackSigningSecret (LoadConfig refuses an empty one)
Secret == "s3cr3t"

\* the values time.Now().Unix() takes
Clock == {1000, 1301}

\* X-Slack-Request-Timestamp: absent, no number, and times around the clock's
TimestampHeaders == {"", "soon", "699", "700", "+1000", "1300", "1301"}

CloudWatchText ==
    "! *CloudWatch Alarm: disk-full*\n" \o Bullet \o " *From:* OK -> *To:* ALARM\n"
    \o Bullet \o " *Reason:* Threshold Crossed\n" \o Bullet \o " *Time:* 2025-07-23"

GrafanaText ==
    "! *Grafana Alert: HighCPU*\n" \o Bullet \o " *State:* FIRING\n"
    \o Bullet \o " *Description:* cpu over 90"

\* the text of a cloud alarm whose reason names a Grafana alert
RelayedText ==
    "! *CloudWatch Alarm: grafana-relay*\n" \o Bullet \o " *From:* OK -> *To:* ALARM\n"
    \o Bullet \o " *Reason:* Grafana Alert: relay is down\n" \o Bullet \o " *Time:* 2025-07-23"

Action(id, value) == [ActionID |-> id, Value |-> value]
Block(type, text) == [Type |-> type, Text |-> text]

SlackPayload(actions, text, blocks) ==
    [Actions |-> actions, User |-> "alice", ResponseURL |-> "https://hooks.slack.test/r1",
     MessageText |-> text, Blocks |-> blocks]

ZeroPayload == [Actions |-> <<>>, User |-> "", ResponseURL |-> "", MessageText |-> "",
                Blocks |-> <<>>]

\* a request body: its bytes (raw), and what url.ParseQuery and json.Unmarshal
\* make of them: formErr, the "payload" field (payloadStr = "" when hasPayload
\* is FALSE), jsonErr, and the decoded SlackPayload
CallbackBody(raw, formErr, hasPayload, jsonErr, payload) ==
    [raw |-> raw, formErr |-> formErr, hasPayload |-> hasPayload, jsonErr |-> jsonErr,
     payload |-> payload]

CallbackBodies ==
    {CallbackBody("payload=%zz", TRUE, FALSE, FALSE, ZeroPayload),
     CallbackBody("token=1", FALSE, FALSE, FALSE, ZeroPayload),
     CallbackBody("payload=%7B", FALSE, TRUE, TRUE, ZeroPayload),
     CallbackBody("payload={}", FALSE, TRUE, FALSE, ZeroPayload),
     CallbackBody("payload=ack", FALSE, TRUE, FALSE,
                  SlackPayload(<<Action("acknowledge", "alert_120")>>, CloudWatchText, <<>>)),
     CallbackBody("payload=dis", FALSE, TRUE, FALSE,
                  SlackPayload(<<Action("dismiss", "grafana_1000")>>, GrafanaText, <<>>)),
     CallbackBody("payload=zzz", FALSE, TRUE, FALSE,
                  SlackPayload(<<Action("snooze", "alert_120")>>, CloudWatchText, <<>>)),
     CallbackBody("payload=Ack", FALSE, TRUE, FALSE,
                  SlackPayload(<<Action("Acknowledge", "alert_120")>>, GrafanaText, <<>>)),
     CallbackBody("payload=two", FALSE, TRUE, FALSE,
                  SlackPayload(<<Action("dismiss", "alert_7"), Action("acknowledge", "alert_7")>>,
                               "Alert", <<Block("actions", GrafanaText),
                                          Block("section", "Alert"),
                                          Block("section", CloudWatchText)>>)),
     CallbackBody("payload=bare", FALSE, TRUE, FALSE,
                  SlackPayload(<<Action("acknowledge", "alert_5")>>, "Alert", <<>>)),
     CallbackBody("payload=no", FALSE, TRUE, FALSE,
                  SlackPayload(<<Action("dismiss", "alert_120")>>, CloudWatchText, <<>>)),
     CallbackBody("payload=relay", FALSE, TRUE, FALSE,
                  SlackPayload(<<Action("acknowledge", "alert_96")>>, RelayedText, <<>>))}

RawBodies == {b.raw : b \in CallbackBodies}

\* the body another request was signed for
OtherRaw(raw) == IF raw = "payload=ack" THEN "payload=dis" ELSE "payload=ack"
\* the timestamp another request was signed with
OtherTimestamp(timestamp) == IF timestamp = "700" THEN "1300" ELSE "700"

\* X-Slack-Signature: absent; a signature made with the secret or with a guessed
\* key, for this or another timestamp, for this or another body; a signature of
\* another version
SignatureHeaders(timestamp, raw) ==
    {NoSignature, SignatureText("v1=", Secret, BaseString(timestamp, raw))}
    \cup {ExpectedSignature(k, t, b) :
            k \in {Secret, "guess"},
            t \in {timestamp, OtherTimestamp(timestamp)},
            b \in {raw, OtherRaw(raw)}}

Request(method, readErr, timestamp, signature, body) ==
    [Method |-> method, readErr |-> readErr, Timestamp |-> timestamp,
     Signature |-> signature, Body |-> body]

\* a correctly signed request, for the requests refused before verification
SignedRequest(method, readErr) ==
    Request(method, readErr, "700", ExpectedSignature(Secret, "700", "payload=ack"),
            CHOOSE b \in CallbackBodies : b.raw = "payload=ack")

\* POST requests with every timestamp, signature and body; a GET request; a
\* request whose body cannot be read
Requests ==
    UNION {{Request("POST", FALSE, t, sig, b) : sig \in SignatureHeaders(t, b.raw)} :
              t \in TimestampHeaders, b \in CallbackBodies}
    \cup {SignedRequest("GET", FALSE), SignedRequest("POST", TRUE)}

\* what http.Post gives sendSlackResponse: an error, or a response with a status
PostResults ==
    {[err |-> TRUE, StatusCode |-> 0], [err |-> FALSE, StatusCode |-> 200],
     [err |-> FALSE, StatusCode |-> 204], [err |-> FALSE, StatusCode |-> 404]}

(***************************************************************************)
(* Interactive callbacks: handleInteractive, one request at a time.        *)
(***************************************************************************)
CallbackIdle ==
    /\ now = 1000
    /\ req = Request("POST", FALSE, "", NoSignature,
                     CallbackBody("token=1", FALSE, FALSE, FALSE, ZeroPayload))
    /\ cbPc = "idle"
    /\ cbState = "NONE"
    /\ responseText = ""
    /\ posts = <<>>
    /\ httpStatus = 0
    /\ served = 0
    /\ verdict = "none"
    /\ clockRead = 0

\* time passes
Tick ==
    /\ \E t \in Clock : t > now /\ now' = t
    /\ UNCHANGED <<req, cbPc, cbState, responseText, posts, httpStatus, served, verdict,
                   clockRead, configVars, callVars, adaptVars, pollVars, fmtVars>>

\* a request comes to /slack/events
Receive ==
    /\ cbPc \in {"idle", "done"}
    /\ served < MaxRequests
    /\ \E r \in Requests : req' = r
    /\ cbPc' = "received"
    /\ cbState' = "RECEIVED"
    /\ responseText' = ""
    /\ posts' = <<>>
    /\ httpStatus' = 0
    /\ served' = served + 1
    /\ verdict' = "none"
    /\ clockRead' = 0
    /\ UNCHANGED <<now, configVars, callVars, adaptVars, pollVars, fmtVars>>

\* the handler answers with this status and returns
Answer(status) ==
    /\ httpStatus' = status
    /\ cbPc' = "done"

\* Verify without the return of line 101: the handler goes on after the 401
VerifyNoReturn ==
    /\ cbPc = "received"
    /\ IF req.Method # "POST"
       THEN Answer(405) /\ UNCHANGED <<cbState, verdict, clockRead>>
       ELSE IF req.readErr
       THEN Answer(400) /\ UNCHANGED <<cbState, verdict, clockRead>>
       ELSE /\ clockRead' = now
            /\ cbPc' = "verified"
            /\ IF verifySlackRequest(req.Timestamp, req.Signature, req.Body.raw, Secret, now)
               THEN /\ verdict' = "accepted"
                    /\ cbState' = "VERIFIED"
                    /\ UNCHANGED httpStatus
               ELSE /\ verdict' = "rejected"
                    /\ httpStatus' = 401
                    /\ UNCHANGED cbState
    /\ UNCHANGED <<now, req, responseText, posts, served, configVars, callVars, adaptVars, pollVars, fmtVars>>

\* lines 81-103: the method, the body, the signature
Verify ==
    /\ cbPc = "received"
    /\ IF req.Method # "POST"
       THEN Answer(405) /\ UNCHANGED <<cbState, verdict, clockRead>>
       ELSE IF req.readErr
       THEN Answer(400) /\ UNCHANGED <<cbState, verdict, clockRead>>
       ELSE /\ clockRead' = now
            /\ IF verifySlackRequest(req.Timestamp, req.Signature, req.Body.raw, Secret, now)
               THEN /\ verdict' = "accepted"
                    /\ cbState' = "VERIFIED"
                    /\ cbPc' = "verified"
                    /\ UNCHANGED httpStatus
               ELSE /\ verdict' = "rejected"
                    /\ Answer(401)
                    /\ UNCHANGED cbState
    /\ UNCHANGED <<now, req, responseText, posts, served, configVars, callVars, adaptVars, pollVars, fmtVars>>

\* lines 105-196: the form, the payload, its first action, the outcome text
Act ==
    /\ cbPc = "verified"
    /\ IF \/ req.Body.formErr
          \/ ~req.Body.hasPayload
          \/ req.Body.jsonErr
          \/ Len(req.Body.payload.Actions) = 0
       THEN Answer(400) /\ UNCHANGED <<cbState, responseText>>
       ELSE LET slackPayload == req.Body.payload
                action == slackPayload.Actions[1]
            IN  /\ cbState' = ActionOutcome(action.ActionID)
                /\ responseText' = ResponseText(action.ActionID, PayloadAlertInfo(slackPayload),
                                                action.Value, slackPayload.User)
                /\ cbPc' = "respond"
                /\ UNCHANGED httpStatus
    /\ UNCHANGED <<now, req, posts, served, verdict, clockRead, configVars, callVars, adaptVars, pollVars, fmtVars>>

\* lines 198-208: the outcome is posted to the response URL; 500 if that fails
Respond ==
    /\ cbPc = "respond"
    /\ \E post \in PostResults :
          /\ posts' = Append(posts, [url |-> req.Body.payload.ResponseURL,
                                     text |-> responseText, result |-> post])
          /\ IF sendSlackResponseErr(post) THEN Answer(500) ELSE Answer(200)
    /\ UNCHANGED <<now, req, cbState, responseText, served, verdict, clockRead,
                   configVars, callVars, adaptVars, pollVars, fmtVars>>

(***************************************************************************)
(* Runs of the formatters: the same alert is formatted more than once.     *)
(***************************************************************************)
\* runs of a formatter on one alert
FormatRuns == 2

FormatIdle ==
    /\ fmtLayout = "none"
    /\ fmtIn = ZeroAlarm
    /\ fmtTexts = <<>>

\* an alarm whose reason quotes an alert relayed from Grafana
RelayAlarm ==
    [CloudWatchAlarm("grafana-relay", "ALARM", "AWS/EC2")
        EXCEPT !.NewStateReason = "Grafana Alert: relay is down"]

\* a legacy webhook whose message has two lines
TwoLineWebhook ==
    [GrafanaWebhook("critical disk", "disk", TagsOf("-"))
        EXCEPT !.Message = "disk is filling up\nsee the runbook"]

FormatInputs ==
    /\ fmtLayout \in {"formatSlackMessage", "formatGrafanaSlackMessage",
                      "formatAlertmanagerSlackMessage"}
    /\ fmtIn \in CASE fmtLayout = "formatSlackMessage" ->
                        {b.Message.alarm : b \in SQSBodies} \cup {RelayAlarm}
                   [] fmtLayout = "formatGrafanaSlackMessage" ->
                        {b.legacy : b \in LegacyBodies \cup OddBodies} \cup {TwoLineWebhook}
                   [] OTHER -> {b.am : b \in ModernBodies}
    /\ fmtTexts = <<>>

FormatCloudWatch ==
    /\ fmtLayout = "formatSlackMessage" /\ Len(fmtTexts) < FormatRuns
    /\ fmtTexts' = Append(fmtTexts, formatSlackMessage(fmtIn))
    /\ UNCHANGED <<fmtLayout, fmtIn, configVars, callVars, adaptVars, pollVars, cbVars>>

FormatGrafana ==
    /\ fmtLayout = "formatGrafanaSlackMessage" /\ Len(fmtTexts) < FormatRuns
    /\ \E t \in RangeOrders(DOMAIN fmtIn.Tags), m \in MatchOrders(fmtIn.EvalMatches) :
          fmtTexts' = Append(fmtTexts,
                             formatGrafanaSlackMessage(fmtIn, [tags |-> t, matches |-> m]))
    /\ UNCHANGED <<fmtLayout, fmtIn, configVars, callVars, adaptVars, pollVars, cbVars>>

FormatAlertmanager ==
    /\ fmtLayout = "formatAlertmanagerSlackMessage" /\ Len(fmtTexts) < FormatRuns
    /\ \E a \in AnnotationOrders(fmtIn) :
          fmtTexts' = Append(fmtTexts, formatAlertmanagerSlackMessage(fmtIn, a))
    /\ UNCHANGED <<fmtLayout, fmtIn, configVars, callVars, adaptVars, pollVars, cbVars>>

(***************************************************************************)
(* The HTTP server: net/http serves each request in a goroutine of its own *)
(* (Server.Start), beside the polling goroutine of main.                   *)
(***************************************************************************)
\* requests the server is given
MaxCalls == 2
\* messages sent to the queue, and receipts, while the server is serving
ServeMsgs == 1
ServeReceipts == 1

WebhookRequest(method, readErr, body) == [Method |-> method, readErr |-> readErr, Body |-> body]

LegacyBody ==
    WebhookBody(FALSE, Alertmanager(<<>>, EmptyMap, "", "disk"), FALSE,
                GrafanaWebhook("critical disk", "disk", TagsOf("P1")))

ModernBody ==
    WebhookBody(FALSE,
                Alertmanager(<<Alert(JObj([k \in {"alertname"} |-> JStr("HighCPU")]),
                                     JObj([k \in {"description"} |-> JStr("cpu over 90")]))>>,
                             [k \in {"alertname"} |-> "HighCPU"], "firing", ""),
                FALSE, ZeroGrafana)

NoJSONBody == WebhookBody(TRUE, ZeroAlertmanager, TRUE, ZeroGrafana)

\* requests to /grafana/webhook: a legacy and a modern webhook, a body that is
\* no JSON, a GET, a body that cannot be read
ServeWebhooks ==
    {WebhookRequest("POST", FALSE, LegacyBody),
     WebhookRequest("POST", FALSE, ModernBody),
     WebhookRequest("POST", FALSE, NoJSONBody),
     WebhookRequest("GET", FALSE, LegacyBody),
     WebhookRequest("POST", TRUE, NoJSONBody)}

BodyOf(raw) == CHOOSE b \in CallbackBodies : b.raw = raw

\* requests to /slack/events: an acknowledge signed at 700 and a dismiss signed
\* at 1300, an acknowledge signed with a guessed key, a GET
ServeCallbacks ==
    {Request("POST", FALSE, "700", ExpectedSignature(Secret, "700", "payload=ack"),
             BodyOf("payload=ack")),
     Request("POST", FALSE, "1300", ExpectedSignature(Secret, "1300", "payload=dis"),
             BodyOf("payload=dis")),
     Request("POST", FALSE, "1300", ExpectedSignature("guess", "1300", "payload=ack"),
             BodyOf("payload=ack")),
     SignedRequest("GET", FALSE)}

\* a request not yet given to the server
NoCall ==
    [kind |-> "none", pc |-> "idle",
     wh |-> WebhookRequest("", FALSE, NoJSONBody),
     req |-> Request("", FALSE, "", NoSignature, BodyOf("token=1")),
     verdict |-> "none", clockRead |-> 0, outcome |-> "NONE",
     post |-> NoPost, notifyCalls |-> 0, notifyErr |-> "none", reply |-> "",
     replyCalls |-> 0, status |-> 0]

\* the local variables of a handler: alertMsg of handleGrafanaWebhook,
\* responseText of handleInteractive
NoFrame == [alertMsg |-> AdaptError, responseText |-> ""]

ServerIdle ==
    /\ calls = [i \in 1..MaxCalls |-> NoCall]
    /\ frames = [i \in 1..MaxCalls |-> NoFrame]

\* one variable shared by the handlers of every request
SharedFrame(i) == 1

\* where the locals of the handler serving request i live: its own stack
\* (alertMsg, err := ... and var responseText string declare them in the handler)
Frame(i) == i

\* the server accepts requests in the order they come
Accepts(i) == calls[i].kind = "none" /\ \A j \in 1..(i - 1) : calls[j].kind # "none"

\* a request comes to /grafana/webhook
ServeGrafanaWebhook(i) ==
    /\ Accepts(i)
    /\ \E r \in ServeWebhooks :
          calls' = [calls EXCEPT ![i] = [NoCall EXCEPT !.kind = "webhook", !.pc = "received",
                                                       !.wh = r]]
    /\ UNCHANGED <<frames, configVars, adaptVars, pollVars, cbVars, fmtVars>>

\* handleGrafanaWebhook, lines 337-358: the method, the body, the adapter
WebhookAdapt(i) ==
    /\ calls[i].kind = "webhook" /\ calls[i].pc = "received"
    /\ LET r == calls[i].wh
       IN  IF r.Method # "POST"
           THEN /\ calls' = [calls EXCEPT ![i].status = 405, ![i].pc = "done"]
                /\ UNCHANGED frames
           ELSE IF r.readErr
           THEN /\ calls' = [calls EXCEPT ![i].status = 400, ![i].pc = "done"]
                /\ UNCHANGED frames
           ELSE \E order \in WebhookOrders(r.Body) :
                   LET out == AdaptGrafanaWebhook(r.Body, channels, alarmChannels, order)
                   IN  IF out.err
                       THEN /\ calls' = [calls EXCEPT ![i].status = 400, ![i].pc = "done"]
                            /\ UNCHANGED frames
                       ELSE /\ frames' = [frames EXCEPT ![Frame(i)].alertMsg = out]
                            /\ calls' = [calls EXCEPT ![i].pc = "notify"]
    /\ UNCHANGED <<configVars, adaptVars, pollVars, cbVars, fmtVars>>

\* WebhookStatus answering 200 whatever NotifyWithButtons returned
WebhookStatusAlwaysOK(failed) == 200

\* handleGrafanaWebhook, lines 365-373: 500 when NotifyWithButtons returned an
\* error, else 200 with {"status": "processed"}
WebhookStatus(failed) == IF failed THEN 500 ELSE 200

\* handleGrafanaWebhook, lines 361-375: NotifyWithButtons with the id
\* "grafana_<unix seconds>"; 500 when it returns an error, else 200 "processed"
WebhookNotify(i) ==
    /\ calls[i].kind = "webhook" /\ calls[i].pc = "notify"
    /\ LET alert == frames[Frame(i)].alertMsg
       IN  \E delivered \in BOOLEAN :
              calls' = [calls EXCEPT
                           ![i].post = NotifyWithButtons(alert.Channel, alert.Message,
                                                         "grafana_" \o Itoa(now)),
                           ![i].notifyCalls = @ + 1,
                           ![i].notifyErr = IF delivered THEN "nil" ELSE "error",
                           ![i].status = WebhookStatus(~delivered),
                           ![i].pc = "done"]
    /\ UNCHANGED <<frames, configVars, adaptVars, pollVars, cbVars, fmtVars>>

\* a request comes to /slack/events
ServeInteractive(i) ==
    /\ Accepts(i)
    /\ \E r \in ServeCallbacks :
          calls' = [calls EXCEPT ![i] = [NoCall EXCEPT !.kind = "callback", !.pc = "received",
                                                       !.req = r, !.outcome = "RECEIVED"]]
    /\ UNCHANGED <<frames, configVars, adaptVars, pollVars, cbVars, fmtVars>>

\* Verified refusing a signature the server accepted before
VerifiedOnce(r) ==
    /\ verifySlackRequest(r.Timestamp, r.Signature, r.Body.raw, Secret, now)
    /\ \A j \in 1..MaxCalls :
          ~(calls[j].verdict = "accepted" /\ calls[j].req.Signature = r.Signature)

\* handleInteractive, line 98: verifySlackRequest on the request's headers and
\* body, with the server's secret and the time of the call
Verified(r) == verifySlackRequest(r.Timestamp, r.Signature, r.Body.raw, Secret, now)

\* handleInteractive, lines 81-103: the method, the body, the signature
InteractiveVerify(i) ==
    /\ calls[i].kind = "callback" /\ calls[i].pc = "received"
    /\ LET r == calls[i].req
       IN  IF r.Method # "POST"
           THEN calls' = [calls EXCEPT ![i].status = 405, ![i].pc = "done"]
           ELSE IF r.readErr
           THEN calls' = [calls EXCEPT ![i].status = 400, ![i].pc = "done"]
           ELSE IF Verified(r)
           THEN calls' = [calls EXCEPT ![i].clockRead = now, ![i].verdict = "accepted",
                                       ![i].outcome = "VERIFIED", ![i].pc = "verified"]
           ELSE calls' = [calls EXCEPT ![i].clockRead = now, ![i].verdict = "rejected",
                                       ![i].status = 401, ![i].pc = "done"]
    /\ UNCHANGED <<frames, configVars, adaptVars, pollVars, cbVars, fmtVars>>

\* handleInteractive, lines 105-196: the form, the payload, its first action,
\* the outcome text
InteractiveAct(i) ==
    /\ calls[i].kind = "callback" /\ calls[i].pc = "verified"
    /\ LET body == calls[i].req.Body
       IN  IF body.formErr \/ ~body.hasPayload \/ body.jsonErr \/ Len(body.payload.Actions) = 0
           THEN /\ calls' = [calls EXCEPT ![i].status = 400, ![i].pc = "done"]
                /\ UNCHANGED frames
           ELSE LET action == body.payload.Actions[1]
                IN  /\ frames' = [frames EXCEPT ![Frame(i)].responseText =
                                      ResponseText(action.ActionID, PayloadAlertInfo(body.payload),
                                                   action.Value, body.payload.User)]
                    /\ calls' = [calls EXCEPT ![i].outcome = ActionOutcome(action.ActionID),
                                              ![i].pc = "respond"]
    /\ UNCHANGED <<configVars, adaptVars, pollVars, cbVars, fmtVars>>

\* handleInteractive, lines 198-208: the outcome is posted to the response URL
InteractiveRespond(i) ==
    /\ calls[i].kind = "callback" /\ calls[i].pc = "respond"
    /\ \E post \in PostResults :
          calls' = [calls EXCEPT ![i].reply = frames[Frame(i)].responseText,
                                 ![i].replyCalls = @ + 1,
                                 ![i].status = IF sendSlackResponseErr(post) THEN 500 ELSE 200,
                                 ![i].pc = "done"]
    /\ UNCHANGED <<frames, configVars, adaptVars, pollVars, cbVars, fmtVars>>

\* the polling goroutine beside the server
ServePoll ==
    /\ \/ SendMessage
       \/ ReceiveMessage
       \/ ReceiveMessageError
       \/ HandlerAdapt
       \/ HandlerNotify
       \/ DeleteMessage
    /\ sent' <= ServeMsgs
    /\ Len(receipts') <= ServeReceipts

(***************************************************************************)
(* Specifications.                                                         *)
(***************************************************************************)
\* the adapters on every input and table
InitAdapt ==
    /\ channels \in ChannelTables
    /\ alarmChannels \in AlarmChannelTables
    /\ AdaptInputs
    /\ PollIdle
    /\ CallbackIdle
    /\ FormatIdle
    /\ ServerIdle

NextAdapt == CallAdaptSQS \/ CallAdaptGrafana

SpecAdapt == InitAdapt /\ [][NextAdapt]_vars

\* the polling loop, with the tables of LoadConfig
InitPoll ==
    /\ channels = DefaultChannels
    /\ alarmChannels \in {EmptyMap, [k \in {"disk-full"} |-> "#pinned"]}
    /\ AdaptIdle
    /\ PollIdle
    /\ CallbackIdle
    /\ FormatIdle
    /\ ServerIdle

NextPoll ==
    \/ SendMessage
    \/ ReceiveMessage
    \/ ReceiveMessageError
    \/ HandlerAdapt
    \/ HandlerNotify
    \/ DeleteMessage

SpecPoll == InitPoll /\ [][NextPoll]_vars

\* the loop handles a receipt of the message sent as the id-th
Handling(id) == pollPc = "handle" /\ receipts[batch[cur]].msg.id = id

\* one step of the loop of Poll
PollStep ==
    \/ ReceiveMessageAgain
    \/ ReceiveMessageError
    \/ HandlerAdapt
    \/ HandlerNotify
    \/ DeleteMessage

NextPollFair == SendMessage \/ PollStep

\* the polling goroutine keeps running (each call it makes returns), and the
\* queue delivers a message it holds to some ReceiveMessage call as its first
\* message (at-least-once delivery)
FairPoll ==
    /\ WF_vars(PollStep)
    /\ \A id \in 1..MaxMsgs : SF_vars(ReceiveMessageAgain /\ Handling(id)')

\* the polling loop running for ever
SpecPollFair == InitPoll /\ [][NextPollFair]_vars /\ FairPoll

\* runs of the formatters
InitFormat ==
    /\ channels = DefaultChannels
    /\ alarmChannels = EmptyMap
    /\ AdaptIdle
    /\ PollIdle
    /\ CallbackIdle
    /\ FormatInputs
    /\ ServerIdle

NextFormat == FormatCloudWatch \/ FormatGrafana \/ FormatAlertmanager

SpecFormat == InitFormat /\ [][NextFormat]_vars

\* the interactive callbacks
InitCallback ==
    /\ channels = DefaultChannels
    /\ alarmChannels = EmptyMap
    /\ AdaptIdle
    /\ PollIdle
    /\ CallbackIdle
    /\ FormatIdle
    /\ ServerIdle

NextCallback == Tick \/ Receive \/ Verify \/ Act \/ Respond

SpecCallback == InitCallback /\ [][NextCallback]_vars

\* what alarm-channels.yaml holds while the server is serving
ServeAlarmChannels == [k \in {"disk-full", "HighCPU"} |-> "#pinned"]

\* the server and the polling loop together, with the tables of LoadConfig
InitServe ==
    /\ channels = DefaultChannels
    /\ alarmChannels = ServeAlarmChannels
    /\ AdaptIdle
    /\ PollIdle
    /\ CallbackIdle
    /\ FormatIdle
    /\ ServerIdle

NextServe ==
    \/ Tick
    \/ ServePoll
    \/ \E i \in 1..MaxCalls :
          \/ ServeGrafanaWebhook(i)
          \/ WebhookAdapt(i)
          \/ WebhookNotify(i)
          \/ ServeInteractive(i)
          \/ InteractiveVerify(i)
          \/ InteractiveAct(i)
          \/ InteractiveRespond(i)

SpecServe == InitServe /\ [][NextServe]_vars

(***************************************************************************)
(* Properties.                                                             *)
(***************************************************************************)
\* receipt r is no longer being handled by the loop
Finished(r) == pollPc = "receive" \/ \A i \in cur..Len(batch) : batch[i] # r

\* C1: in Poller.Poll, for every message a ReceiveMessage call returned,
\* DeleteMessage is called exactly once if the handler returned no error and
\* never if the handler returned an error.
DeleteOncePerHandledMessage ==
    \A r \in 1..Len(receipts) :
        /\ receipts[r].deleteCalls <= 1
        /\ receipts[r].deleteCalls = 1 => receipts[r].handlerErr = "nil"
        /\ receipts[r].handlerErr = "error" => receipts[r].deleteCalls = 0
        /\ Finished(r) /\ receipts[r].handlerErr = "nil" => receipts[r].deleteCalls = 1

\* C1's case: a batch of two receipts, one whose handler failed at delivery and
\* was not deleted, one handled and deleted once
DeleteOncePerHandledMessageWitness ==
    /\ pollPc = "receive"
    /\ \E r1, r2 \in 1..Len(receipts) :
          /\ r1 # r2
          /\ receipts[r1].handlerErr = "error" /\ receipts[r1].notifyCalls = 1
          /\ receipts[r1].deleteCalls = 0
          /\ receipts[r2].handlerErr = "nil" /\ receipts[r2].deleteCalls = 1

\* the difference of the clock and the timestamp is at most 300 s, either way
InReplayWindow(timestamp, clock) ==
    /\ ~ParseInt(timestamp).err
    /\ clock - ParseInt(timestamp).value <= 300
    /\ ParseInt(timestamp).value - clock <= 300

\* the signature Slack's protocol gives the request
SlackSignature(timestamp, raw) == SignatureText("v0=", Secret, "v0:" \o timestamp \o ":" \o raw)

\* C2: for a request whose timestamp is inside the replay window,
\* verifySlackRequest accepts exactly when both headers are present and the
\* signature is "v0=" + hex(HMAC-SHA256(secret, "v0:" + timestamp + ":" + body));
\* a request with a header absent is rejected, and so is one signed for a body
\* that differs from the body it carries.
VerifyAcceptsExactlySigned ==
    verdict # "none" =>
        /\ InReplayWindow(req.Timestamp, clockRead) =>
              (verdict = "accepted" <=>
                  /\ req.Timestamp # ""
                  /\ req.Signature # NoSignature
                  /\ req.Signature = SlackSignature(req.Timestamp, req.Body.raw))
        /\ req.Timestamp = "" \/ req.Signature = NoSignature => verdict = "rejected"
        /\ (\E raw \in RawBodies :
                raw # req.Body.raw /\ req.Signature = SlackSignature(req.Timestamp, raw))
              => verdict = "rejected"

\* C2's case: a correctly signed request inside the window was accepted
VerifyAcceptsExactlySignedWitness ==
    /\ verdict = "accepted"
    /\ InReplayWindow(req.Timestamp, clockRead)
    /\ req.Signature = SlackSignature(req.Timestamp, req.Body.raw)

\* C3: verifySlackRequest rejects every request whose timestamp differs from
\* the current time by more than 300 s in either direction, whatever its
\* signature, and never rejects on age a request whose difference is at most
\* 300 s.
VerifyRejectsOutsideWindow ==
    verdict # "none" /\ ~ParseInt(req.Timestamp).err =>
        /\ ~InReplayWindow(req.Timestamp, clockRead) => verdict = "rejected"
        /\ InReplayWindow(req.Timestamp, clockRead)
              /\ req.Signature = SlackSignature(req.Timestamp, req.Body.raw)
              => verdict = "accepted"

\* C4: when verification of a callback fails, handleInteractive answers 401,
\* computes no action outcome and posts nothing to the response URL; a post to
\* the response URL is preceded by a successful verification of that request.
RejectedCallbackDoesNothing ==
    /\ verdict = "rejected" =>
          /\ httpStatus = 401
          /\ cbPc = "done"
          /\ cbState = "RECEIVED"
          /\ responseText = ""
          /\ posts = <<>>
    /\ cbPc = "respond" \/ posts # <<>> \/ responseText # "" => verdict = "accepted"

\* C4's case: a request with a wrong signature was answered 401
RejectedCallbackDoesNothingWitness ==
    /\ verdict = "rejected"
    /\ httpStatus = 401
    /\ req.Signature # NoSignature
    /\ InReplayWindow(req.Timestamp, clockRead)
    /\ Len(req.Body.payload.Actions) > 0

\* C5: a verified callback is answered 200 only if the replacement message was
\* delivered to the response target; if the delivery fails or the target
\* answers with a status other than 200, the caller gets 500, never a success.
SuccessOnlyAfterDelivery ==
    /\ httpStatus = 200 =>
          /\ verdict = "accepted"
          /\ Len(posts) = 1
          /\ ~posts[1].result.err /\ posts[1].result.StatusCode = 200
    /\ posts # <<>> /\ (posts[1].result.err \/ posts[1].result.StatusCode # 200) =>
          httpStatus = 500

\* C5's case: the response target answered 204 and the caller got 500
SuccessOnlyAfterDeliveryWitness ==
    /\ Len(posts) = 1
    /\ ~posts[1].result.err /\ posts[1].result.StatusCode = 204
    /\ httpStatus = 500

TerminalOutcomes == {"ACKNOWLEDGED", "DISMISSED", "UNKNOWN_ACTION"}

\* the outcome the first action entry of the request asks for
OutcomeOfFirstAction(request) ==
    LET id == request.Body.payload.Actions[1].ActionID
    IN  CASE id = "acknowledge" -> "ACKNOWLEDGED"
          [] id = "dismiss" -> "DISMISSED"
          [] OTHER -> "UNKNOWN_ACTION"

\* C6: a callback goes RECEIVED -> VERIFIED -> one terminal outcome, chosen by
\* the first action entry: "acknowledge" gives ACKNOWLEDGED, "dismiss" gives
\* DISMISSED, any other id UNKNOWN_ACTION with the unknown-action message; no
\* terminal outcome is reached but from VERIFIED, and no step of the callback
\* leaves a terminal outcome.
CallbackStateMachine ==
    [][/\ cbState' = "VERIFIED" /\ cbState # "VERIFIED" => cbState = "RECEIVED"
       /\ cbState' \in TerminalOutcomes /\ cbState' # cbState =>
             /\ cbState = "VERIFIED"
             /\ Len(req.Body.payload.Actions) > 0
             /\ cbState' = OutcomeOfFirstAction(req)
             /\ cbState' = "UNKNOWN_ACTION" =>
                   responseText' = "Unknown action: " \o req.Body.payload.Actions[1].ActionID
       /\ cbState \in TerminalOutcomes /\ served' = served => cbState' = cbState]_vars

\* C6's case: an action id that differs from "acknowledge" by its case only
\* ended in UNKNOWN_ACTION
CallbackStateMachineWitness ==
    /\ cbState = "UNKNOWN_ACTION"
    /\ req.Body.payload.Actions[1].ActionID = "Acknowledge"
    /\ cbPc = "done"

\* the call took the modern adapter (line 316)
TookModern == adaptFn = "AdaptGrafanaWebhook" /\ ~adaptIn.amErr /\ Len(adaptIn.am.Alerts) > 0
\* the call took the legacy adapter, and the body decoded (lines 321-324)
TookLegacy == adaptFn = "AdaptGrafanaWebhook" /\ ~TookModern /\ ~adaptIn.legacyErr
\* the call took the cloud-alarm adapter, and the body decoded
TookCloudAlarm ==
    /\ adaptFn = "AdaptSQSMessageWithRouting"
    /\ ~adaptIn.envelopeErr /\ ~adaptIn.Message.messageErr

\* the name of the alert of the call: AlarmName, the rule name, the alertname
\* label (of the common labels or of the first alert, as the message shows it)
AlertName ==
    IF TookCloudAlarm THEN adaptIn.Message.alarm.AlarmName
    ELSE IF TookLegacy THEN adaptIn.legacy.RuleName
    ELSE AlertmanagerName(adaptIn.am)

\* C7: for each of the three adapters, whenever the explicit alert-to-channel
\* table has an entry for the alert's name, the resolved channel is that entry,
\* whatever priority was computed.  (An entry is taken to name a channel: the
\* entries that map a name to "" are left out.)
ExplicitMappingWins ==
    adaptDone /\ ~adaptOut.err /\ Lookup(alarmChannels, AlertName) # "" =>
        adaptOut.Channel = alarmChannels[AlertName]

\* C8: every successful adaptation by any of the three adapters returns a
\* non-empty channel, given a routing table whose "default" entry is not
\* empty, whatever the P0/P1/P2 entries and the explicit mapping hold.
ChannelNeverEmpty ==
    adaptDone /\ ~adaptOut.err /\ Lookup(channels, "default") # "" => adaptOut.Channel # ""

\* C8's case: the table has no entry for the priority and the explicit entry of
\* the name is "": the channel is the default one
ChannelNeverEmptyWitness ==
    /\ adaptDone /\ ~adaptOut.err
    /\ AlertName \in DOMAIN alarmChannels /\ alarmChannels[AlertName] = ""
    /\ adaptOut.Priority \notin DOMAIN channels
    /\ adaptOut.Channel = channels["default"]

\* the text is a no-data indicator
NoDataIndicator(str) ==
    \E word \in {"nodata", "no data", "data source"} : Contains(ToLower(str), word)

\* alert i of the list names or describes a no-data condition
NamesNoData(alerts, i) ==
    \/ HasString(alerts[i].labels, "alertname")
          /\ NoDataIndicator(StringOf(alerts[i].labels, "alertname"))
    \/ HasString(alerts[i].annotations, "description")
          /\ NoDataIndicator(StringOf(alerts[i].annotations, "description"))

\* C9: in the modern webhook adapter, when the batch status is "firing"
\* (whatever its case) and the name or the description of any alert of the
\* list contains "nodata", "no data" or "data source" (whatever their case),
\* the priority is P1, even if a channel tag asks for P0 or P2.
NoDataForcesP1 ==
    adaptDone /\ TookModern /\ ToLower(adaptIn.am.Status) = "firing"
      /\ (\E i \in 1..Len(adaptIn.am.Alerts) : NamesNoData(adaptIn.am.Alerts, i))
      => ~adaptOut.err /\ adaptOut.Priority = "P1"

\* C9's case: the common labels ask for P0, the status is "Firing", and only
\* the second alert is a no-data one
NoDataForcesP1Witness ==
    /\ adaptDone /\ TookModern
    /\ adaptIn.am.Status = "Firing"
    /\ Lookup(adaptIn.am.CommonLabels, "channel") = "P0"
    /\ Len(adaptIn.am.Alerts) = 2
    /\ ~NamesNoData(adaptIn.am.Alerts, 1) /\ NamesNoData(adaptIn.am.Alerts, 2)
    /\ adaptOut.Priority = "P1"

\* C10: in the legacy webhook adapter, a channel tag equal to P0, P1 or P2
\* (whatever its case) is the priority, whatever keywords the rule name or the
\* title holds.
ChannelTagDecidesLegacyPriority ==
    adaptDone /\ TookLegacy /\ "channel" \in DOMAIN adaptIn.legacy.Tags
      /\ ToUpper(adaptIn.legacy.Tags["channel"]) \in {"P0", "P1", "P2"}
      => ~adaptOut.err /\ adaptOut.Priority = ToUpper(adaptIn.legacy.Tags["channel"])

\* C10's case: the tag channel=P2 on a rule whose name holds "critical"
ChannelTagDecidesLegacyPriorityWitness ==
    /\ adaptDone /\ TookLegacy
    /\ Lookup(adaptIn.legacy.Tags, "channel") = "P2"
    /\ Contains(adaptIn.legacy.RuleName, "critical")
    /\ adaptOut.Priority = "P2"

\* the channel tag of a legacy webhook is present and is none of P0, P1, P2
LegacyTagUnrecognized ==
    /\ TookLegacy /\ "channel" \in DOMAIN adaptIn.legacy.Tags
    /\ ToUpper(adaptIn.legacy.Tags["channel"]) \notin {"P0", "P1", "P2"}

\* the channel tag of a modern webhook (of the common labels, else of the first
\* alert) is present and is none of P0, P1, P2, and no alert is a no-data one
ModernTagUnrecognized ==
    /\ TookModern /\ ChannelTag(adaptIn.am) # ""
    /\ ToUpper(ChannelTag(adaptIn.am)) \notin {"P0", "P1", "P2"}
    /\ ~(ToLower(adaptIn.am.Status) = "firing"
         /\ \E i \in 1..Len(adaptIn.am.Alerts) : NamesNoData(adaptIn.am.Alerts, i))

\* C11: a channel tag whose value is not P0, P1 or P2, in the legacy or the
\* modern webhook adapter, folds to priority P2, whatever the name or the
\* title of the alert.
UnrecognizedTagFoldsToP2 ==
    adaptDone /\ (LegacyTagUnrecognized \/ ModernTagUnrecognized) =>
        ~adaptOut.err /\ adaptOut.Priority = "P2"

\* C12: adaptation of a cloud-alarm payload without AlarmName or without
\* NewStateValue fails with an error, so that no successful adaptation gives an
\* alert with an empty name.
MissingFieldsFail ==
    adaptDone /\ TookCloudAlarm
      /\ (adaptIn.Message.alarm.AlarmName = "" \/ adaptIn.Message.alarm.NewStateValue = "")
      => adaptOut.err

\* the payload of the call is well formed and holds its identifying field
HoldsIdentifyingField ==
    \/ TookCloudAlarm /\ adaptIn.Message.alarm.AlarmName # ""
                      /\ adaptIn.Message.alarm.NewStateValue # ""
    \/ TookLegacy /\ adaptIn.legacy.RuleName # ""
    \/ TookModern /\ AlertName # ""

\* the text of the message shows the name of the alert: in its title and, for a
\* legacy webhook whose rule name is not its title, in the line of the rule
MessageShowsName ==
    IF TookCloudAlarm
    THEN Contains(adaptOut.Message, "*CloudWatch Alarm: " \o AlertName \o "*\n")
    ELSE IF TookLegacy
    THEN /\ Contains(adaptOut.Message, "*Grafana Alert: " \o adaptIn.legacy.Title \o "*\n")
         /\ \/ AlertName = adaptIn.legacy.Title
            \/ Contains(adaptOut.Message, "*Rule:* " \o Backquote \o AlertName \o Backquote)
    ELSE Contains(adaptOut.Message, "*Grafana Alert: " \o AlertName \o "*\n")

\* the explicit mapping was looked up under the name of the alert: an entry of
\* that name, if there is one, is the channel
LookupUsesName ==
    Lookup(alarmChannels, AlertName) # "" => adaptOut.Channel = alarmChannels[AlertName]

\* C13: for each of the three adapters, adaptation of a well-formed payload that
\* holds its identifying field (AlarmName; the rule name; the alertname label of
\* the common labels or of the first alert) succeeds, and the name used for the
\* explicit-mapping lookup and the name in the rendered text are that field.
NameIsIdentifyingField ==
    adaptDone /\ HoldsIdentifyingField =>
        ~adaptOut.err /\ MessageShowsName /\ LookupUsesName

\* the body has the shape of a legacy webhook: a rule id and a state
HasLegacyShape == ~adaptIn.legacyErr /\ adaptIn.legacy.RuleID # 0 /\ adaptIn.legacy.State # ""

\* C14: format detection is first-match in the order modern, legacy, cloud
\* alarm: a webhook body with a non-empty alert list is handled by the modern
\* adapter, else by the legacy adapter only if it has the ruleId/state shape,
\* and a body of none of the shapes is rejected with an error: it gives no
\* message.
DetectionIsFirstMatch ==
    adaptDone /\ adaptFn = "AdaptGrafanaWebhook" =>
        /\ TookModern => ~adaptOut.err /\ adaptOut.Priority = AlertmanagerPriority(adaptIn.am)
        /\ ~TookModern /\ ~HasLegacyShape => adaptOut.err

\* C15: formatting is deterministic for all three layouts: the runs of a
\* formatter on the same alert (tags, labels, annotations and metric tags of
\* two or more entries among them) all give the same text, byte for byte.
FormattingIsDeterministic ==
    \A i, j \in 1..Len(fmtTexts) : fmtTexts[i] = fmtTexts[j]

\* the names and the reasons of the cloud alarms whose messages carry buttons
CallbackAlarmNames == {"disk-full", "grafana-relay"}
CallbackReasons == {"Threshold Crossed", "Grafana Alert: relay is down"}

\* the text holds the title of the cloud alarm of this name and the line of this reason
HoldsTitleAndReason(text, name, reason) ==
    /\ Contains(text, "*CloudWatch Alarm: " \o name \o "*\n")
    /\ Contains(text, Bullet \o " *Reason:* " \o reason \o "\n")

\* the replacement text echoes the name, the user and the reason, and carries
\* the marker of its action and not the marker of the other one
EchoesAlarm(name, reason) ==
    /\ Contains(responseText, name)
    /\ Contains(responseText, req.Body.payload.User)
    /\ Contains(responseText, reason)
    /\ cbState = "ACKNOWLEDGED" =>
           Contains(responseText, "being handled") /\ ~Contains(responseText, "dismissed")
    /\ cbState = "DISMISSED" =>
           Contains(responseText, "dismissed") /\ ~Contains(responseText, "being handled")

\* C16: for an acknowledge action on a message whose text holds a
\* "CloudWatch Alarm: <name>" title and a Reason line, the replacement text
\* holds <name>, the name of the acting user and the reason, with the
\* being-handled marker and without the dismissed marker; for a dismiss action,
\* with the dismissed marker and without the being-handled one.
ReplacementEchoesAlarm ==
    cbState \in {"ACKNOWLEDGED", "DISMISSED"} =>
        \A name \in CallbackAlarmNames, reason \in CallbackReasons :
            HoldsTitleAndReason(req.Body.payload.MessageText, name, reason) =>
                EchoesAlarm(name, reason)

\* the same for the messages whose text does not hold "Grafana Alert:": a text
\* that does is read by the Grafana patterns, whatever its title
ReplacementEchoesCloudAlarm ==
    cbState \in {"ACKNOWLEDGED", "DISMISSED"}
      /\ ~Contains(req.Body.payload.MessageText, "Grafana Alert:") =>
        \A name \in CallbackAlarmNames, reason \in CallbackReasons :
            HoldsTitleAndReason(req.Body.payload.MessageText, name, reason) =>
                EchoesAlarm(name, reason)

\* the name holds the word, whatever the case of its letters
NameHolds(name, word) == Contains(ToLower(name), word)

\* the cloud alarm is one the claim calls critical: a production term or a cpu or
\* memory keyword in its name, or the namespace of a database, of a load
\* balancer or of the 5xx class
IsCriticalAlarm(alarm) ==
    \/ \E word \in {"prod", "production", "cpu", "memory"} : NameHolds(alarm.AlarmName, word)
    \/ \E service \in {"RDS", "DynamoDB", "ELB", "5xx"} :
          Contains(alarm.Trigger.Namespace, service)

NoTagNoOverride ==
    \/ TookCloudAlarm
    \/ TookLegacy /\ "channel" \notin DOMAIN adaptIn.legacy.Tags
    \/ TookModern /\ ChannelTag(adaptIn.am) = ""
          /\ ~(ToLower(adaptIn.am.Status) = "firing"
               /\ \E i \in 1..Len(adaptIn.am.Alerts) : NamesNoData(adaptIn.am.Alerts, i))

\* the name and the description of the alert of the call
NameAndDescription ==
    IF TookCloudAlarm THEN {adaptIn.Message.alarm.AlarmName}
    ELSE IF TookLegacy
    THEN {adaptIn.legacy.RuleName, adaptIn.legacy.Title, adaptIn.legacy.Message}
    ELSE {AlertName} \cup
         (IF HasString(adaptIn.am.Alerts[1].annotations, "description")
          THEN {StringOf(adaptIn.am.Alerts[1].annotations, "description")}
          ELSE {})

\* one of the words is in the name or the description, whatever the case
HoldsKeyword(words) ==
    \E word \in words, text \in NameAndDescription : Contains(ToLower(text), word)

\* the keywords of the P0 rules and of the P1 rules
CriticalWords == {"prod", "production", "critical", "down"}
ResourceWords == {"cpu", "memory"}
ImportantWords == {"redis", "elasticache", "error", "high"}

\* C18: for every adapter, an alert with no channel tag and no no-data override
\* is classified by the keyword rules in first-match order: a production,
\* critical or down term in its name or description gives P0, an error or
\* high-severity term gives P1 (when no P0 rule matches), and P2 is given only
\* when no keyword rule matches.
KeywordsClassify ==
    adaptDone /\ ~adaptOut.err /\ NoTagNoOverride =>
        /\ HoldsKeyword(CriticalWords) => adaptOut.Priority = "P0"
        /\ HoldsKeyword({"error", "high"}) /\ adaptOut.Priority # "P0" =>
               adaptOut.Priority = "P1"
        /\ adaptOut.Priority = "P2" =>
               ~HoldsKeyword(CriticalWords \cup ResourceWords \cup ImportantWords)

\* the README's P0 rule: "prod" or "production" in the name, or the RDS or the
\* DynamoDB service
ReadmeP0(alarm) ==
    \/ NameHolds(alarm.AlarmName, "prod")
    \/ Contains(alarm.Trigger.Namespace, "RDS") \/ Contains(alarm.Trigger.Namespace, "DynamoDB")

\* the README's P1 rule: the ELB or the Lambda service, or a CPU or memory alarm
ReadmeP1(alarm) ==
    \/ Contains(alarm.Trigger.Namespace, "ELB") \/ Contains(alarm.Trigger.Namespace, "Lambda")
    \/ NameHolds(alarm.AlarmName, "cpu") \/ NameHolds(alarm.AlarmName, "memory")

\* C19: as the README's priority routing logic states, a cloud alarm that is
\* not P0 (no "prod"/"production" in its name, namespace neither RDS nor
\* DynamoDB) is P1 and routed to the P1 channel when its namespace is ELB or
\* Lambda or when it is a CPU/memory alarm, and every other alarm is P2.
ReadmeRoutingLogic ==
    adaptDone /\ TookCloudAlarm /\ ~ReadmeP0(adaptIn.Message.alarm) =>
        IF ReadmeP1(adaptIn.Message.alarm)
        THEN /\ adaptOut.Priority = "P1"
             /\ AlertName \notin DOMAIN alarmChannels /\ Lookup(channels, "P1") # "" =>
                    adaptOut.Channel = channels["P1"]
        ELSE adaptOut.Priority = "P2"

\* C20: envelope unwrapping of a queue body yields the inner payload when an
\* envelope with a message field is present, accepts a body that is itself an
\* alarm payload without an envelope, and fails with an error only when the
\* body is neither.
EnvelopeUnwrapping ==
    adaptDone /\ adaptFn = "AdaptSQSMessageWithRouting" =>
        /\ TookCloudAlarm =>
               ~adaptOut.err /\ adaptOut.Message = formatSlackMessage(adaptIn.Message.alarm)
        /\ adaptIn.bare.isAlarm =>
               ~adaptOut.err /\ adaptOut.Message = formatSlackMessage(adaptIn.bare.alarm)
        /\ adaptOut.err => ~TookCloudAlarm /\ ~adaptIn.bare.isAlarm

\* C21: on the queue path a failure at any stage of a message (envelope
\* parsing, adaptation, delivery) is terminal for that receipt: the handler and
\* the delivery are each invoked at most once per received message, nothing is
\* done for the receipt after its failure, no delete is issued for it, and the
\* step that fails leaves the message in the queue.
FailureIsTerminal ==
    [][\A r \in DOMAIN receipts :
          /\ receipts'[r].handlerCalls <= 1
          /\ receipts'[r].notifyCalls <= 1
          /\ receipts'[r].handlerErr = "error" =>
                /\ receipts'[r].deleteCalls = 0
                /\ receipts[r].handlerErr = "error" => receipts'[r] = receipts[r]
                /\ receipts[r].handlerErr # "error" =>
                      queue' = queue /\ receipts[r].msg \in queue']_vars

\* C21's case: the loop went on after one receipt failed at adaptation (no
\* delivery attempted) and another failed at delivery, both messages still queued
FailureIsTerminalWitness ==
    /\ pollPc = "receive"
    /\ \E r1, r2 \in DOMAIN receipts :
          /\ receipts[r1].handlerErr = "error" /\ receipts[r1].handlerCalls = 1
          /\ receipts[r1].notifyCalls = 0 /\ receipts[r1].msg \in queue
          /\ receipts[r2].handlerErr = "error" /\ receipts[r2].notifyCalls = 1
          /\ receipts[r2].msg \in queue

\* what request r to /grafana/webhook gets when it is served alone, with the
\* tables as LoadConfig built them: the status written and the message posted
WebhookAlone(r) ==
    IF r.Method # "POST" THEN {[status |-> 405, post |-> NoPost]}
    ELSE IF r.readErr THEN {[status |-> 400, post |-> NoPost]}
    ELSE UNION {LET out == AdaptGrafanaWebhook(r.Body, DefaultChannels, ServeAlarmChannels, order)
                IN  IF out.err THEN {[status |-> 400, post |-> NoPost]}
                    ELSE {[status |-> st,
                           post |-> NotifyWithButtons(out.Channel, out.Message,
                                                      "grafana_" \o Itoa(t))] :
                             st \in {200, 500}, t \in Clock} :
                  order \in WebhookOrders(r.Body)}

\* what request r to /slack/events gets when it is served alone at time t: the
\* status written and the text posted to the response URL
CallbackAlone(r, t) ==
    IF r.Method # "POST" THEN {[status |-> 405, reply |-> ""]}
    ELSE IF r.readErr THEN {[status |-> 400, reply |-> ""]}
    ELSE IF ~verifySlackRequest(r.Timestamp, r.Signature, r.Body.raw, Secret, t)
    THEN {[status |-> 401, reply |-> ""]}
    ELSE IF \/ r.Body.formErr \/ ~r.Body.hasPayload \/ r.Body.jsonErr
            \/ Len(r.Body.payload.Actions) = 0
    THEN {[status |-> 400, reply |-> ""]}
    ELSE {[status |-> st,
           reply |-> ResponseText(r.Body.payload.Actions[1].ActionID,
                                  PayloadAlertInfo(r.Body.payload),
                                  r.Body.payload.Actions[1].Value, r.Body.payload.User)] :
             st \in {200, 500}}

\* the message the handler of main posts for a queue body when it runs alone
QueueAlone(body) ==
    LET out == AdaptSQSMessageWithRouting(body, DefaultChannels, ServeAlarmChannels)
    IN  Notify(out.Channel, out.Message)

\* C22: for any interleaving of concurrent callbacks, webhook requests and the
\* polling loop, each request's response and delivered message are the same as
\* if it ran alone, and the routing table (priority-to-channel and explicit
\* alert-to-channel maps) stays as it was constructed.
RequestsDoNotInterfere ==
    /\ channels = DefaultChannels
    /\ alarmChannels = ServeAlarmChannels
    /\ \A i \in 1..MaxCalls :
          /\ calls[i].kind = "webhook" /\ calls[i].pc = "done" =>
                [status |-> calls[i].status, post |-> calls[i].post] \in WebhookAlone(calls[i].wh)
          /\ calls[i].kind = "callback" /\ calls[i].pc = "done" =>
                [status |-> calls[i].status, reply |-> calls[i].reply]
                    \in CallbackAlone(calls[i].req, calls[i].clockRead)
    /\ \A r \in DOMAIN receipts :
          receipts[r].notifyCalls > 0 => receipts[r].post = QueueAlone(receipts[r].msg.body)

\* C22's case: a webhook request was served from arrival to its 200 while an
\* earlier webhook request with another message was between its adaptation
\* and its delivery and the polling loop was between the adaptation and the
\* delivery of a queue message
RequestsDoNotInterfereWitness ==
    /\ MaxCalls >= 2
    /\ calls[1].kind = "webhook" /\ calls[1].pc = "notify"
    /\ calls[2].kind = "webhook" /\ calls[2].pc = "done" /\ calls[2].status = 200
    /\ calls[2].post.text # frames[Frame(1)].alertMsg.Message
    /\ pollPc = "notify"

\* the webhook request i was delivered to the chat platform
WebhookDelivered(i) == calls[i].kind = "webhook" /\ calls[i].pc = "done" /\ calls[i].status = 200

\* the receipt r was delivered to the chat platform
QueueDelivered(r) == receipts[r].notifyCalls = 1 /\ receipts[r].handlerErr = "nil"

\* C23: the correlation id attached to the acknowledge/dismiss buttons
\* identifies the alert instance: two distinct alert notifications delivered by
\* the system (two webhook alerts, two queue messages, or one of each) never
\* carry the same correlation id, whatever the second they are delivered in and
\* whatever the length of their texts.
CorrelationIdIdentifiesAlert ==
    /\ \A i, j \in 1..MaxCalls :
          i # j /\ WebhookDelivered(i) /\ WebhookDelivered(j) =>
              calls[i].post.value # calls[j].post.value
    /\ \A r, q \in DOMAIN receipts :
          receipts[r].msg # receipts[q].msg /\ QueueDelivered(r) /\ QueueDelivered(q) =>
              receipts[r].post.value # receipts[q].post.value
    /\ \A i \in 1..MaxCalls, r \in DOMAIN receipts :
          WebhookDelivered(i) /\ QueueDelivered(r) => calls[i].post.value # receipts[r].post.value

\* the callback request i went through verifySlackRequest
Judged(i) == calls[i].kind = "callback" /\ calls[i].verdict # "none"

\* the callback request i posted its replacement message
Replied(i) == calls[i].kind = "callback" /\ calls[i].replyCalls = 1

\* C24: callback handling is stateless across requests: the verdict and the
\* outcome of a callback depend only on that request, the secret and the time
\* it was verified at, whatever callbacks came before; so an alert already
\* acknowledged or dismissed is acknowledged or dismissed again, and the same
\* signed request submitted again while its timestamp is inside the window is
\* accepted again and produces the same replacement message.
CallbacksAreStateless ==
    \A i \in 1..MaxCalls :
        Judged(i) =>
            LET r == calls[i].req
            IN  /\ calls[i].verdict = "accepted" <=>
                       verifySlackRequest(r.Timestamp, r.Signature, r.Body.raw, Secret,
                                          calls[i].clockRead)
                /\ Replied(i) =>
                       /\ calls[i].outcome = ActionOutcome(r.Body.payload.Actions[1].ActionID)
                       /\ calls[i].reply =
                              ResponseText(r.Body.payload.Actions[1].ActionID,
                                           PayloadAlertInfo(r.Body.payload),
                                           r.Body.payload.Actions[1].Value, r.Body.payload.User)
                /\ \A j \in 1..MaxCalls :
                       /\ Judged(j) /\ calls[j].req = r
                       /\ r.Signature = SlackSignature(r.Timestamp, r.Body.raw)
                       /\ InReplayWindow(r.Timestamp, calls[i].clockRead)
                       /\ InReplayWindow(r.Timestamp, calls[j].clockRead)
                       => /\ calls[i].verdict = "accepted" /\ calls[j].verdict = "accepted"
                          /\ Replied(i) /\ Replied(j) =>
                                 calls[i].reply = calls[j].reply /\ calls[i].outcome = calls[j].outcome

\* C24's case: a signed dismiss was accepted and answered at 1000, and the same
\* request, submitted again at 1301 for the alert already dismissed, was
\* accepted and answered with the same replacement message
CallbacksAreStatelessWitness ==
    /\ MaxCalls >= 2
    /\ Replied(1) /\ Replied(2)
    /\ calls[1].req = calls[2].req
    /\ calls[1].outcome = "DISMISSED" /\ calls[2].outcome = "DISMISSED"
    /\ calls[1].status = 200 /\ calls[2].status = 200
    /\ calls[1].clockRead = 1000 /\ calls[2].clockRead = 1301
    /\ calls[1].reply = calls[2].reply /\ calls[1].reply # ""

\* the message sent as the id-th is left in the queue by a receipt of the
\* current batch: its handler failed, or its DeleteMessage call did
LeftInQueue(id) ==
    \E r \in DOMAIN receipts :
        /\ receipts[r].msg.id = id
        /\ receipts[r].msg \in queue
        /\ receipts[r].handlerErr = "error" \/ receipts[r].deleteCalls = 1

\* C25: no failure stops the polling loop: after a handler error, a
\* DeleteMessage error or a ReceiveMessage error the loop comes back to
\* ReceiveMessage only when every message of the batch has been given to the
\* handler, it always comes back to ReceiveMessage, and (the loop being fair) a
\* message left in the queue is eventually received and handled again.
PollingNeverStops ==
    /\ [](pollPc = "receive" =>
             \A k \in DOMAIN batch : receipts[batch[k]].handlerCalls = 1)
    /\ (pollPc # "receive") ~> (pollPc = "receive")
    /\ \A id \in 1..MaxMsgs : LeftInQueue(id) ~> Handling(id)

\* C25's case: the loop is back at ReceiveMessage after a batch of two whose
\* first message failed at delivery and whose second was handled after it and
\* its DeleteMessage failed: both are left in the queue
PollingNeverStopsWitness ==
    /\ pollPc = "receive" /\ Len(batch) = 2
    /\ receipts[batch[1]].handlerErr = "error" /\ receipts[batch[1]].notifyCalls = 1
    /\ receipts[batch[2]].handlerErr = "nil" /\ receipts[batch[2]].deleteCalls = 1
    /\ receipts[batch[1]].msg \in queue /\ receipts[batch[2]].msg \in queue

\* the handler of receipt r returned and, when it returned nil, the delete
\* attempt was made
Completed(r) ==
    /\ receipts[r].handlerErr \in {"nil", "error"}
    /\ receipts[r].handlerErr = "nil" => receipts[r].deleteCalls = 1

\* the receipts whose handling has started and is not completed
InFlight == {r \in DOMAIN receipts : receipts[r].handlerCalls > 0 /\ ~Completed(r)}

\* C26: the polling loop is strictly sequential: the handling of a message
\* never starts before the handler and the delete attempt of the message
\* before it have completed, a message is delivered to the chat platform
\* after its adaptation and routing (the text and the channel posted are the
\* adapter's), its delete is issued only after its delivery returned success,
\* and at most one queue message is in flight at any time.
PollingIsSequential ==
    [][/\ \A r \in DOMAIN receipts :
             /\ receipts'[r].handlerCalls > receipts[r].handlerCalls =>
                   /\ \A q \in 1..(r - 1) : Completed(q)
                   /\ alertMsg' = AdaptSQSMessageWithRouting(receipts[r].msg.body, channels,
                                                             alarmChannels)
             /\ receipts'[r].notifyCalls > receipts[r].notifyCalls =>
                   /\ receipts[r].handlerCalls = 1 /\ ~alertMsg.err
                   /\ InFlight = {r}
                   /\ receipts'[r].post = Notify(alertMsg.Channel, alertMsg.Message)
             /\ receipts'[r].deleteCalls > receipts[r].deleteCalls =>
                   /\ receipts[r].notifyCalls = 1 /\ receipts[r].handlerErr = "nil"
                   /\ InFlight = {r}
       /\ Cardinality(InFlight') <= 1]_vars

\* C26's case: in a batch of two, the first message was adapted, delivered and
\* deleted, and the second is adapted and waits for its delivery
PollingIsSequentialWitness ==
    /\ pollPc = "notify" /\ Len(batch) = 2 /\ cur = 2
    /\ receipts[batch[1]].notifyCalls = 1 /\ receipts[batch[1]].deleteCalls = 1
    /\ receipts[batch[2]].handlerCalls = 1 /\ receipts[batch[2]].notifyCalls = 0

\* the name the formatter of the layout renders in the title of the message
RenderedName ==
    CASE fmtLayout = "formatSlackMessage" -> fmtIn.AlarmName
      [] fmtLayout = "formatGrafanaSlackMessage" -> fmtIn.Title
      [] OTHER -> AlertmanagerName(fmtIn)

\* the reason or description the formatter of the layout renders ("" when it
\* renders none)
RenderedDescription ==
    CASE fmtLayout = "formatSlackMessage" -> fmtIn.NewStateReason
      [] fmtLayout = "formatGrafanaSlackMessage" -> fmtIn.Message
      [] OTHER ->
           IF Len(fmtIn.Alerts) > 0 /\ fmtIn.Alerts[1].annotations.t = "obj"
              /\ DescriptionLine(fmtIn.Alerts[1].annotations) # ""
           THEN LET annotations == fmtIn.Alerts[1].annotations
                IN  IF "description" \in DOMAIN annotations.m
                    THEN StringOf(annotations, "description")
                    ELSE StringOf(annotations, "summary")
           ELSE ""

\* the round trip of the k-th rendered text
RoundTrips(k) ==
    /\ extractAlertInfo(fmtTexts[k]).Name = RenderedName
    /\ RenderedDescription # "" =>
           extractAlertInfo(fmtTexts[k]).Description = RenderedDescription

\* the round trip holds for the texts in which no free text of the alert holds
\* a marker phrase or a line break
RoundTripOfPlainTexts ==
    \A k \in DOMAIN fmtTexts :
        fmtIn \notin {RelayAlarm, TwoLineWebhook} => RoundTrips(k)

\* C27: round trip between formatter and callback extraction: for every alert
\* rendered by the cloud-alarm, legacy-webhook or modern-webhook formatter,
\* extractAlertInfo applied to the rendered text returns that alert's name and
\* the reason/description that was rendered.
FormatExtractRoundTrip == \A k \in DOMAIN fmtTexts : RoundTrips(k)

\* the adapter accepts the body of the webhook request r
Adaptable(r) ==
    \E order \in WebhookOrders(r.Body) :
        ~AdaptGrafanaWebhook(r.Body, channels, alarmChannels, order).err

\* C28: on the webhook path each POST request causes at most one delivery
\* attempt to the chat platform: none when the body cannot be adapted (the
\* caller gets a 400), exactly one when it can, and the caller gets a 200 only
\* if that delivery succeeded, a 500 otherwise.
WebhookDeliversOnce ==
    \A i \in 1..MaxCalls :
        calls[i].kind = "webhook" =>
            /\ calls[i].notifyCalls <= 1
            /\ calls[i].pc = "done" /\ calls[i].wh.Method = "POST" =>
                  IF calls[i].wh.readErr \/ ~Adaptable(calls[i].wh)
                  THEN calls[i].notifyCalls = 0 /\ calls[i].status = 400
                  ELSE /\ calls[i].notifyCalls = 1
                       /\ calls[i].status = 200 <=> calls[i].notifyErr = "nil"
                       /\ calls[i].status = 500 <=> calls[i].notifyErr = "error"
                       /\ calls[i].status \in {200, 500}

\* C28's case: a POST whose body is no JSON was answered 400 without a delivery
\* attempt, and a POST of a webhook was adapted, its one delivery attempt
\* failed, and it was answered 500
WebhookDeliversOnceWitness ==
    \E i, j \in 1..MaxCalls :
        /\ calls[i].kind = "webhook" /\ calls[i].wh = WebhookRequest("POST", FALSE, NoJSONBody)
        /\ calls[i].status = 400 /\ calls[i].notifyCalls = 0
        /\ calls[j].kind = "webhook" /\ calls[j].status = 500
        /\ calls[j].notifyCalls = 1 /\ calls[j].notifyErr = "error"

====
